---- MODULE Spec2Model ----
(***************************************************************************)
(* Model of the custom action layer of the KLTN e-commerce chatbot:        *)
(*   - validate_gemini_response, the regex filter for AI-generated text    *)
(*     (actions/actions.py),                                               *)
(*   - BackendAPIClient._make_request (actions/api_client.py),             *)
(*   - the action handlers that call the backend or Gemini.                *)
(* Texts are TLA+ strings; the regular expressions of FORBIDDEN_PATTERNS   *)
(* are evaluated character by character by a small matcher.                *)
(***************************************************************************)
EXTENDS Integers, Sequences, FiniteSets, TLC

(***************************************************************************)
(* Bounds                                                                  *)
(***************************************************************************)
\* Longest response text, in words of Vocabulary, drawn as filter input.
MaxTokens == 2

(***************************************************************************)
(* Characters and str.lower()                                              *)
(***************************************************************************)
UpperChars == "ABCDEFGHIJKLMNOPQRSTUVWXYZ"
LowerChars == "abcdefghijklmnopqrstuvwxyz"
DigitChars == "0123456789"

CharAt(s, i) == IF i >= 1 /\ i <= Len(s) THEN SubSeq(s, i, i) ELSE ""

CharsOf(s) == { SubSeq(s, i, i) : i \in 1..Len(s) }

UpperSet == CharsOf(UpperChars)
DigitSet == CharsOf(DigitChars)
SpaceSet == {" "}
WordSet  == CharsOf(UpperChars) \cup CharsOf(LowerChars) \cup CharsOf(DigitChars) \cup {"_"}

\* \d of the re module on the characters of the model's alphabet
IsDigit(c) == c \in DigitSet

\* \s
IsSpace(c) == c \in SpaceSet

\* \w : letters, digits and the underscore
IsWord(c) == c \in WordSet

LowerMap ==
    [c \in UpperSet |->
        LET i == CHOOSE j \in 1..Len(UpperChars) : SubSeq(UpperChars, j, j) = c
        IN  SubSeq(LowerChars, i, i)]

LowerChar(c) == IF c \in UpperSet THEN LowerMap[c] ELSE c

\* the characters lo..hi of s, each lower-cased (split in halves to keep the
\* evaluation shallow on long texts)
RECURSIVE LowerRange(_, _, _)
LowerRange(s, lo, hi) ==
    IF lo > hi THEN ""
    ELSE IF lo = hi THEN LowerChar(SubSeq(s, lo, lo))
    ELSE LET mid == (lo + hi) \div 2
         IN  LowerRange(s, lo, mid) \o LowerRange(s, mid + 1, hi)

\* str.lower()
lower(s) == LowerRange(s, 1, Len(s))

\* s[:n]
Prefix(s, n) == SubSeq(s, 1, IF Len(s) < n THEN Len(s) ELSE n)

\* sub occurs in s
Contains(s, sub) == \E i \in 1..(Len(s) - Len(sub) + 1) : SubSeq(s, i, i + Len(sub) - 1) = sub

(***************************************************************************)
(* Regular expressions: a pattern is a sequence of elements                *)
(*   Lit(s)   the literal string s                                         *)
(*   WB       \b                                                           *)
(*   D1       \d+                                                          *)
(*   S0, S1   \s*  and  \s+                                                *)
(*   Opt(s)   (s)?                                                         *)
(*   Alt(S)   (a|b) for the strings of the set S                           *)
(***************************************************************************)
Lit(s) == [k |-> "lit", s |-> s, alts |-> {}]
WB     == [k |-> "wb",  s |-> "", alts |-> {}]
D1     == [k |-> "d+",  s |-> "", alts |-> {}]
S0     == [k |-> "s*",  s |-> "", alts |-> {}]
S1     == [k |-> "s+",  s |-> "", alts |-> {}]
Opt(s) == [k |-> "opt", s |-> s, alts |-> {}]
Alt(S) == [k |-> "alt", s |-> "", alts |-> S]

LitAt(text, pos, s) ==
    /\ pos + Len(s) - 1 <= Len(text)
    /\ SubSeq(text, pos, pos + Len(s) - 1) = s

\* number of consecutive digits (cls = "d") or spaces (cls = "s") from pos
RECURSIVE RunLen(_, _, _)
RunLen(text, pos, cls) ==
    IF pos > Len(text) THEN 0
    ELSE LET c == SubSeq(text, pos, pos)
             hit == IF cls = "d" THEN IsDigit(c) ELSE IsSpace(c)
         IN  IF hit THEN 1 + RunLen(text, pos + 1, cls) ELSE 0

\* \b holds between position pos-1 and pos
AtWordBoundary(text, pos) ==
    IsWord(CharAt(text, pos - 1)) # IsWord(CharAt(text, pos))

\* pat[i..] matches text from position pos on (some way of matching exists)
RECURSIVE MatchFrom(_, _, _, _)
MatchFrom(pat, i, text, pos) ==
    IF i > Len(pat) THEN TRUE
    ELSE LET e == pat[i] IN
         CASE e.k = "lit" -> LitAt(text, pos, e.s) /\ MatchFrom(pat, i + 1, text, pos + Len(e.s))
           [] e.k = "wb"  -> AtWordBoundary(text, pos) /\ MatchFrom(pat, i + 1, text, pos)
           [] e.k = "d+"  -> \E n \in 1..RunLen(text, pos, "d") : MatchFrom(pat, i + 1, text, pos + n)
           [] e.k = "s+"  -> \E n \in 1..RunLen(text, pos, "s") : MatchFrom(pat, i + 1, text, pos + n)
           [] e.k = "s*"  -> \E n \in 0..RunLen(text, pos, "s") : MatchFrom(pat, i + 1, text, pos + n)
           [] e.k = "opt" -> \/ LitAt(text, pos, e.s) /\ MatchFrom(pat, i + 1, text, pos + Len(e.s))
                             \/ MatchFrom(pat, i + 1, text, pos)
           [] e.k = "alt" -> \E a \in e.alts :
                                LitAt(text, pos, a) /\ MatchFrom(pat, i + 1, text, pos + Len(a))

\* re.search(pattern, text) is not None
re_search(pat, text) == \E pos \in 1..(Len(text) + 1) : MatchFrom(pat, 1, text, pos)

(***************************************************************************)
(* validate_gemini_response                                                *)
(***************************************************************************)
FORBIDDEN_PATTERNS == <<
    \* Price-related
    << Lit("$"), D1 >>,                                           \* \$\d+
    << Lit("₫"), D1 >>,                                           \* ₫\d+
    << D1, S0, Lit("vnd") >>,                                     \* \d+\s*vnd
    << D1, S0, Lit("dollar") >>,                                  \* \d+\s*dollar
    << D1, S0, Lit("usd") >>,                                     \* \d+\s*usd
    << WB, Lit("price"), S1, Lit("is"), WB >>,                    \* \bprice\s+is\b
    << WB, Lit("cost"), Opt("s"), S1, D1 >>,                      \* \bcosts?\s+\d+
    << WB, Lit("for"), S1, Lit("$") >>,                           \* \bfor\s+\$
    << WB, Lit("cheap"), S1, Lit("at"), WB >>,                    \* \bcheap\s+at\b
    << WB, Lit("expensive"), S1, Lit("at"), WB >>,                \* \bexpensive\s+at\b
    \* Stock-related
    << WB, Lit("in"), S1, Lit("stock"), WB >>,                    \* \bin\s+stock\b
    << WB, Lit("out"), S1, Lit("of"), S1, Lit("stock"), WB >>,    \* \bout\s+of\s+stock\b
    << WB, Lit("sold"), S1, Lit("out"), WB >>,                    \* \bsold\s+out\b
    << WB, Lit("inventory"), S1, Alt({"is", "has"}), WB >>,       \* \binventory\s+(is|has)\b
    \* Order-related
    << WB, Lit("order"), S1, Lit("status"), WB >>,                \* \border\s+status\b
    << WB, Lit("tracking"), S1, Lit("number"), WB >>,             \* \btracking\s+number\b
    << WB, Lit("shipped"), S1, Lit("on"), WB >>,                  \* \bshipped\s+on\b
    << WB, Lit("delivery"), S1, Lit("date"), WB >>,               \* \bdelivery\s+date\b
    << WB, Lit("will"), S1, Lit("arrive"), WB >>,                 \* \bwill\s+arrive\b
    << WB, Lit("processing"), S1, Lit("your"), WB >>,             \* \bprocessing\s+your\b
    \* Promotion-related
    << D1, Lit("%"), S0, Lit("off"), WB >>,                       \* \d+%\s*off\b
    << WB, Lit("discount"), S1, Lit("code"), WB >>,               \* \bdiscount\s+code\b
    << WB, Lit("promotion"), S1, Alt({"ends", "starts"}), WB >>,  \* \bpromotion\s+(ends|starts)\b
    << WB, Lit("coupon"), S1, Lit("code"), WB >>,                 \* \bcoupon\s+code\b
    << WB, Lit("special"), S1, Lit("offer"), WB >>,               \* \bspecial\s+offer\b
    << WB, Lit("on"), S1, Lit("sale"), WB >>                      \* \bon\s+sale\b
>>

safe_fallback ==
    "That's a great question! However, I need to check our store system "
    \o "to give you accurate information about that. Let me help you find the right details. "
    \o "What specifically would you like to know?"

\* indices of the patterns that re.search finds in the lower-cased text
violated_keywords(response_text) ==
    LET response_lower == lower(response_text)
    IN  { p \in 1..Len(FORBIDDEN_PATTERNS) : re_search(FORBIDDEN_PATTERNS[p], response_lower) }

\* the patterns are searched in the text as given, not lower-cased
validate_case_sensitive(response_text, user_message) ==
    IF \E p \in 1..Len(FORBIDDEN_PATTERNS) : re_search(FORBIDDEN_PATTERNS[p], response_text)
    THEN [is_valid |-> FALSE, text |-> safe_fallback]
    ELSE [is_valid |-> TRUE,  text |-> response_text]

\* the lower-cased working copy is returned for a safe response
validate_returning_lower(response_text, user_message) ==
    IF violated_keywords(response_text) # {}
    THEN [is_valid |-> FALSE, text |-> safe_fallback]
    ELSE [is_valid |-> TRUE,  text |-> lower(response_text)]

\* a blocked response keeps its text up to the first 20 characters
validate_truncating(response_text, user_message) ==
    IF violated_keywords(response_text) # {}
    THEN [is_valid |-> FALSE, text |-> Prefix(response_text, 20)]
    ELSE [is_valid |-> TRUE,  text |-> response_text]

\* the user message is screened together with the response
validate_screening_user(response_text, user_message) ==
    IF violated_keywords(response_text \o " " \o user_message) # {}
    THEN [is_valid |-> FALSE, text |-> safe_fallback]
    ELSE [is_valid |-> TRUE,  text |-> response_text]

validate_gemini_response(response_text, user_message) ==
    IF violated_keywords(response_text) # {}
    THEN [is_valid |-> FALSE, text |-> safe_fallback]
    ELSE [is_valid |-> TRUE,  text |-> response_text]

\* the logger.warning record written when a response is blocked
violation_log(response_text, user_message) ==
    IF violated_keywords(response_text) # {}
    THEN << [level |-> "warning",
             patterns |-> violated_keywords(response_text),
             user |-> Prefix(user_message, 100),
             gemini |-> Prefix(response_text, 100)] >>
    ELSE << >>

(***************************************************************************)
(* Inputs of the filter                                                    *)
(***************************************************************************)
Vocabulary ==
    { "", "price", "is", "costs", "25", "$25", "in", "stock", "sold", "out",
      "tracking", "number", "on", "sale", "20%", "off", "Cotton", "SOLD" }

\* " ".join(words)
RECURSIVE Join(_)
Join(words) ==
    IF Len(words) = 0 THEN ""
    ELSE IF Len(words) = 1 THEN words[1]
    ELSE words[1] \o " " \o Join(Tail(words))

RECURSIVE Repeat(_, _)
Repeat(s, n) == IF n = 0 THEN "" ELSE s \o Repeat(s, n - 1)

\* number of repetitions of the long safe response of test_very_long_response
LongRepeats == 12

\* the keywords of TestForbiddenKeywords.test_blocks_forbidden_keyword
ForbiddenKeywords ==
    { "price", "cost", "$25", "cheap", "in stock", "sold out", "available",
      "tracking", "shipped", "delivery", "discount", "sale", "promotion" }

KeywordResponse(keyword) == "Sure! The item has " \o keyword \o " information."

OrderStatusResponse == "Your order is being processed and will ship tomorrow."

\* the responses of tests/test_gemini_safety.py
TestResponses ==
    { "Cotton is breathable and great for summer. It's comfortable and easy to care for.",
      "This shirt costs around $25-30 and is very affordable.",
      "Yes, this item is in stock and available for purchase.",
      OrderStatusResponse,
      "There's a 20% discount on all items this week!",
      "Cotton is great for summer. Prices start from $20.",
      Repeat("Cotton fabric ", LongRepeats) }
    \cup { KeywordResponse(k) : k \in ForbiddenKeywords }

Texts ==
    { Join(w) : w \in UNION { [1..n -> Vocabulary] : n \in 0..MaxTokens } } \cup TestResponses

UserMessages == { "", "How much is this shirt?", "is it in stock" }

NotValidated == [is_valid |-> FALSE, text |-> "<not validated>"]

(***************************************************************************)
(* Python values                                                           *)
(***************************************************************************)
\* None of an integer-valued slot or variable
NoneInt == -1

\* None of a module-level singleton
NoInstance == 0

\* None of a string-valued entity, slot or metadata field ("" is falsy as well)
NoneStr == ""

(***************************************************************************)
(* Trace of the effects of one operation, in program order                 *)
(***************************************************************************)
\* query parameters / JSON payload of a request: the keys that are sent
NoParams == [keys |-> {}, query |-> "", limit |-> 0, order_id |-> ""]

\* session.request(...) issued to the backend; error tells whether the caller
\* got a dictionary with a truthy "error" for it
Http(method, endpoint, params, outcome, error) ==
    [op |-> "http", method |-> method, endpoint |-> endpoint, kind |-> outcome.kind,
     text |-> "", source |-> "", error |-> error, params |-> params]

\* dispatcher.utter_message(text=..., metadata={"source": ..., "error": ...})
Utter(text, source, error) ==
    [op |-> "utter", method |-> "", endpoint |-> "", kind |-> "",
     text |-> text, source |-> source, error |-> error, params |-> NoParams]

\* self.model.generate_content(prompt) answered (kind "text") or failed
\* (kind "exception"); params.query holds the prompt that was sent
Generate(prompt, outcome) ==
    [op |-> "gemini", method |-> "", endpoint |-> "", kind |-> outcome.kind,
     text |-> outcome.text, source |-> "", error |-> FALSE,
     params |-> [NoParams EXCEPT !.query = prompt]]

\* validate_gemini_response(text, ...) called
Validation(text) ==
    [op |-> "validate", method |-> "", endpoint |-> "", kind |-> "",
     text |-> text, source |-> "", error |-> FALSE, params |-> NoParams]

SelectOp(trace, op) == SelectSeq(trace, LAMBDA e : e.op = op)

(***************************************************************************)
(* JSON dictionaries: a dictionary is a record of the keys the handlers    *)
(* read; an absent key holds the falsy value of its type.  "data" is a     *)
(* list (data) or a dictionary (data_dict) that holds customer_id and      *)
(* products (data_products)                                                *)
(***************************************************************************)
EmptyDict ==
    [shape |-> "dict", error |-> FALSE, message |-> "", details |-> "",
     success |-> FALSE, data |-> << >>, data_dict |-> FALSE, data_products |-> << >>,
     products |-> << >>,
     customer_id |-> 0, status |-> "", order_number |-> "", tracking_number |-> ""]

\* a bare JSON list with the given items
ListBody(items) == [EmptyDict EXCEPT !.shape = "list", !.products = items]

(***************************************************************************)
(* Outcomes of one HTTP exchange with the backend                          *)
(***************************************************************************)
\* 2xx with a JSON body
Ok(body) == [kind |-> "ok", status |-> 200, text |-> "", body |-> body]

\* raise_for_status() raises HTTPError
HttpError(status, text) == [kind |-> "http_error", status |-> status, text |-> text, body |-> EmptyDict]

\* requests.exceptions.ConnectionError / Timeout raised by session.request
ConnectionFailure(text) == [kind |-> "connection", status |-> 0, text |-> text, body |-> EmptyDict]
TimeoutFailure == [kind |-> "timeout", status |-> 0, text |-> "Read timed out.", body |-> EmptyDict]

\* 2xx whose body is not JSON: response.json() raises.  With requests >= 2.27
\* the error is a RequestException (wrapped), before that a bare ValueError (raw).
InvalidJsonWrapped == [kind |-> "invalid_json_wrapped", status |-> 200, text |-> "Expecting value", body |-> EmptyDict]
InvalidJsonRaw == [kind |-> "invalid_json_raw", status |-> 200, text |-> "Expecting value", body |-> EmptyDict]

\* 2xx whose JSON body reports an error
ErrorBody(message) == Ok([EmptyDict EXCEPT !.error = TRUE, !.message = message])

FailureOutcomes ==
    { ErrorBody("Order not found"),
      HttpError(404, "Order not found"), HttpError(500, "Internal Server Error"),
      ConnectionFailure("Connection refused"), TimeoutFailure,
      InvalidJsonWrapped, InvalidJsonRaw }

\* the outcome is a failure of the backend that the claims call an error:
\* an HTTP error status, a connection failure or a timeout
IsBackendFailure(kind) == kind \in {"http_error", "connection", "timeout"}

(***************************************************************************)
(* BackendAPIClient._make_request                                          *)
(***************************************************************************)
\* the value _make_request hands back for an outcome: the parsed body, an
\* error dictionary, or a propagating exception
request_result(outcome) ==
    CASE outcome.kind = "ok" ->
            [raised |-> FALSE, result |-> outcome.body]
      [] outcome.kind = "http_error" ->
            [raised |-> FALSE,
             result |-> [EmptyDict EXCEPT !.error = TRUE,
                            !.message = "API request failed: " \o ToString(outcome.status),
                            !.details = outcome.text]]
      [] outcome.kind \in {"connection", "timeout", "invalid_json_wrapped"} ->
            [raised |-> FALSE,
             result |-> [EmptyDict EXCEPT !.error = TRUE,
                            !.message = "Connection error: " \o outcome.text]]
      [] outcome.kind = "invalid_json_raw" ->
            [raised |-> TRUE, result |-> EmptyDict]

\* a failed request is issued a second time
make_request_retrying(method, endpoint, params, outcome) ==
    LET r == request_result(outcome)
        sent == Http(method, endpoint, params, outcome, r.result.error)
    IN  [raised |-> r.raised, result |-> r.result,
         calls |-> IF outcome.kind = "ok" THEN << sent >> ELSE << sent, sent >>]

\* the exception handlers do not return: the failure propagates
make_request_raising(method, endpoint, params, outcome) ==
    LET sent == Http(method, endpoint, params, outcome, FALSE)
    IN  IF outcome.kind = "ok"
        THEN [raised |-> FALSE, result |-> outcome.body, calls |-> << sent >>]
        ELSE [raised |-> TRUE, result |-> EmptyDict, calls |-> << sent >>]

\* one session.request inside the try block, no loop around it
make_request(method, endpoint, params, outcome) ==
    LET r == request_result(outcome)
    IN  [raised |-> r.raised, result |-> r.result,
         calls |-> << Http(method, endpoint, params, outcome, r.result.error) >>]

(***************************************************************************)
(* BackendAPIClient methods                                                *)
(***************************************************************************)
\* get_api_client() called
GetApiClient == [op |-> "get_api_client", method |-> "", endpoint |-> "", kind |-> "",
                 text |-> "", source |-> "", error |-> FALSE, params |-> NoParams]

\* get_gemini_client() called
GetGeminiClient == [op |-> "get_gemini_client", method |-> "", endpoint |-> "", kind |-> "",
                    text |-> "", source |-> "", error |-> FALSE, params |-> NoParams]

\* search_products: only query and limit reach the request
search_products(query, limit, min_price, max_price, outcome) ==
    LET params == [NoParams EXCEPT
                      !.keys = (IF query # NoneStr THEN {"query"} ELSE {})
                               \cup (IF limit # 0 THEN {"limit"} ELSE {}),
                      !.query = query, !.limit = limit]
    IN  make_request("GET", "/api/chatbot/products/search", params, outcome)

get_order_details(order_id, auth_token, outcome) ==
    make_request("GET", "/orders/track",
                 [NoParams EXCEPT !.keys = {"order_id"}, !.order_id = order_id], outcome)

get_user_orders(auth_token, limit, outcome) ==
    make_request("GET", "/orders", [NoParams EXCEPT !.keys = {"limit"}, !.limit = limit], outcome)

get_delivery_estimation(order_id, auth_token, outcome) ==
    make_request("GET", "/orders/track/delivery-estimation",
                 [NoParams EXCEPT !.keys = {"order_id"}, !.order_id = order_id], outcome)

verify_token(jwt_token, outcome) ==
    make_request("POST", "/api/chatbot/auth/verify", [NoParams EXCEPT !.keys = {"jwt_token"}], outcome)

get_top_discounts(limit, outcome) ==
    make_request("GET", "/internal/promotions/top-discounts",
                 [NoParams EXCEPT !.keys = {"limit"}, !.limit = limit], outcome)

\* the orders of the list one of whose items names the product
matching_orders(orders, product_name) ==
    SelectSeq(orders, LAMBDA o :
        \E i \in 1..Len(o.items) : Contains(lower(o.items[i]), lower(product_name)))

search_purchased_products(product_name, auth_token, outcome) ==
    LET r == get_user_orders(auth_token, 50, outcome) IN
    IF r.raised THEN r
    ELSE IF r.result.shape = "list"
    THEN [r EXCEPT !.raised = TRUE]                      \* list.get: AttributeError
    ELSE IF r.result.error THEN r
    ELSE [r EXCEPT !.result = [EmptyDict EXCEPT !.data = matching_orders(r.result.data, product_name)]]

\* log_gemini_call: the request is wrapped in try/except Exception
log_gemini_call(outcome) ==
    LET r == make_request("POST", "/api/chatbot/gemini/log",
                          [NoParams EXCEPT !.keys = {"user_message", "rasa_intent", "rasa_confidence",
                                                     "gemini_response", "response_time_ms",
                                                     "is_validated", "metadata"}],
                          outcome)
    IN  IF r.raised
        THEN [r EXCEPT !.raised = FALSE,
                       !.result = [EmptyDict EXCEPT !.error = TRUE, !.message = "Backend logging unavailable"]]
        ELSE r

(***************************************************************************)
(* GeminiRAGClient                                                         *)
(***************************************************************************)
\* what the process environment makes of GeminiRAGClient.__init__
GeminiEnvs == { "ready", "rag_off", "no_package", "no_key", "init_error" }

\* self.enabled after __init__
gemini_enabled(e) == e = "ready"

\* __init__ reached self.model = genai.GenerativeModel(...); otherwise the
\* instance has no attribute model
gemini_has_model(e) == e \in { "ready", "rag_off" }

NoText == [kind |-> "none", text |-> ""]
GeminiText(t) == [kind |-> "text", text |-> t]
GeminiException == [kind |-> "exception", text |-> "429 quota exceeded"]

\* the dictionaries the three methods return; raised tells that the method
\* was left by an exception instead
RagDisabled ==
    [raised |-> FALSE, success |-> FALSE, error |-> "RAG is disabled", response |-> NoneStr, calls |-> << >>]

\* try: response = self.model.generate_content(prompt) ... except Exception
generate_content(prompt, outcome) ==
    IF outcome.kind = "text"
    THEN [raised |-> FALSE, success |-> TRUE, error |-> "", response |-> outcome.text,
          calls |-> << Generate(prompt, outcome) >>]
    ELSE [raised |-> FALSE, success |-> FALSE, error |-> outcome.text, response |-> NoneStr,
          calls |-> << Generate(prompt, outcome) >>]

\* a product of the backend; described = FALSE: its "description" is null
Product(name, price, description, described, stock) ==
    [name |-> name, price |-> price, description |-> description, described |-> described,
     stock |-> stock]

\* _build_context_from_products, for at most 5 products; raised: slicing a
\* null description is a TypeError
RECURSIVE ProductLines(_, _, _)
ProductLines(products, i, last) ==
    IF i > last THEN << >>
    ELSE << ToString(i) \o ". " \o products[i].name,
            "   Price: $" \o ToString(products[i].price),
            "   Description: " \o Prefix(products[i].description, 100) \o "...",
            "   In Stock: " \o (IF products[i].stock > 0 THEN "True" ELSE "False") \o "\n" >>
         \o ProductLines(products, i + 1, last)

RECURSIVE JoinLines(_)
JoinLines(lines) ==
    IF lines = << >> THEN ""
    ELSE IF Len(lines) = 1 THEN lines[1]
    ELSE lines[1] \o "\n" \o JoinLines(Tail(lines))

build_context_from_products(products) ==
    LET last == IF Len(products) < 5 THEN Len(products) ELSE 5
    IN  IF products = << >>
        THEN [raised |-> FALSE, context |-> "No product information available."]
        ELSE IF \E i \in 1..last : ~products[i].described
        THEN [raised |-> TRUE, context |-> ""]
        ELSE [raised |-> FALSE,
              context |-> JoinLines(<< "Available products:\n" >> \o ProductLines(products, 1, last))]

\* _create_prompt without conversation history
create_prompt(user_query, context) ==
    JoinLines(<< "You are a helpful e-commerce shopping assistant. Use the provided context to answer the customer's question.",
                 "Be friendly, concise, and accurate. If the context doesn't contain relevant information, politely say so.",
                 "", "Context:", context, "",
                 "Customer question: " \o user_query, "", "Your response:" >>)

generate_response_with_products(user_query, products, e, outcome) ==
    LET built == build_context_from_products(products)
    IN  IF ~gemini_enabled(e) THEN RagDisabled
        ELSE IF built.raised
        THEN [raised |-> FALSE, success |-> FALSE, error |-> "'NoneType' object is not subscriptable",
              response |-> NoneStr, calls |-> << >>]
        ELSE generate_content(create_prompt(user_query, built.context), outcome)

generate_response_with_context(user_query, context, e, outcome) ==
    IF ~gemini_enabled(e) THEN RagDisabled
    ELSE generate_content(create_prompt(user_query, context), outcome)

\* the except clause is missing: a failure of the model call leaves the method
handle_open_ended_query_uncaught(user_query, e, outcome) ==
    IF ~gemini_enabled(e) THEN RagDisabled
    ELSE IF outcome.kind = "text"
    THEN generate_content(user_query, outcome)
    ELSE [raised |-> TRUE, success |-> FALSE, error |-> outcome.text, response |-> NoneStr,
          calls |-> << Generate(user_query, outcome) >>]

handle_open_ended_query(user_query, e, outcome) ==
    IF ~gemini_enabled(e) THEN RagDisabled
    ELSE generate_content(
            JoinLines(<< "You are a knowledgeable e-commerce shopping assistant with expertise in fashion, electronics, and general retail.",
                         "Provide helpful, friendly advice based on the customer's question.",
                         "Keep responses concise (2-3 sentences) and actionable.",
                         "",
                         "Customer question: " \o user_query, "", "Your helpful response:" >>),
            outcome)

(***************************************************************************)
(* extract_product_name                                                    *)
(***************************************************************************)
\* optional group (a|b)? and group (a|b) whose alternatives are patterns
OptG(S) == [k |-> "optg", s |-> "", alts |-> S]
AltG(S) == [k |-> "altg", s |-> "", alts |-> S]

\* the positions at which a match of pat[i..] that starts at pos can end
RECURSIVE MatchEnds(_, _, _, _)
MatchEnds(pat, i, text, pos) ==
    IF i > Len(pat) THEN {pos}
    ELSE LET e == pat[i] IN
         CASE e.k = "lit" ->
                IF LitAt(text, pos, e.s) THEN MatchEnds(pat, i + 1, text, pos + Len(e.s)) ELSE {}
           [] e.k = "s+" ->
                UNION { MatchEnds(pat, i + 1, text, pos + n) : n \in 1..RunLen(text, pos, "s") }
           [] e.k = "s*" ->
                UNION { MatchEnds(pat, i + 1, text, pos + n) : n \in 0..RunLen(text, pos, "s") }
           [] e.k = "optg" ->
                LET inner == UNION { MatchEnds(sub, 1, text, pos) : sub \in e.alts }
                IN  UNION { MatchEnds(pat, i + 1, text, q) : q \in inner \cup {pos} }
           [] e.k = "altg" ->
                LET inner == UNION { MatchEnds(sub, 1, text, pos) : sub \in e.alts }
                IN  UNION { MatchEnds(pat, i + 1, text, q) : q \in inner }

SetMax(S) == CHOOSE m \in S : \A x \in S : x <= m

Word(w) == << Lit(w), S1 >>
Article3 == OptG({ Word("a"), Word("an"), Word("some") })
Article2 == OptG({ Word("a"), Word("an") })

\* the patterns are anchored with ^
en_patterns == <<
    \* ^i\s+want\s+to\s+(find|buy|see|search)\s+(for\s+)?(a\s+|an\s+|some\s+)?
    << Lit("i"), S1, Lit("want"), S1, Lit("to"), S1,
       AltG({ <<Lit("find")>>, <<Lit("buy")>>, <<Lit("see")>>, <<Lit("search")>> }), S1,
       OptG({ Word("for") }), Article3 >>,
    \* ^i\s*m\s+(finding|searching|looking\s+for)\s+(a\s+|an\s+)?
    << Lit("i"), S0, Lit("m"), S1,
       AltG({ <<Lit("finding")>>, <<Lit("searching")>>, <<Lit("looking"), S1, Lit("for")>> }), S1,
       Article2 >>,
    \* ^find\s+(me\s+)?(a\s+|an\s+|some\s+)?
    << Lit("find"), S1, OptG({ Word("me") }), Article3 >>,
    \* ^show\s+(me\s+)?(a\s+|an\s+|some\s+)?
    << Lit("show"), S1, OptG({ Word("me") }), Article3 >>,
    \* ^search\s+(for\s+)?(a\s+|an\s+|some\s+)?
    << Lit("search"), S1, OptG({ Word("for") }), Article3 >>,
    \* ^looking\s+for\s+(a\s+|an\s+|some\s+)?
    << Lit("looking"), S1, Lit("for"), S1, Article3 >>,
    \* ^(can|could)\s+you\s+(find|show)\s+(me\s+)?(a\s+|an\s+)?
    << AltG({ <<Lit("can")>>, <<Lit("could")>> }), S1, Lit("you"), S1,
       AltG({ <<Lit("find")>>, <<Lit("show")>> }), S1, OptG({ Word("me") }), Article2 >>,
    \* ^i\s+need\s+(a\s+|an\s+|some\s+)?
    << Lit("i"), S1, Lit("need"), S1, Article3 >>,
    \* ^finding\s+(a\s+|an\s+)?
    << Lit("finding"), S1, Article2 >>
>>

vi_patterns == <<
    \* ^tôi\s+cần\s+(tìm|mua)\s+
    << Lit("tôi"), S1, Lit("cần"), S1, AltG({ <<Lit("tìm")>>, <<Lit("mua")>> }), S1 >>,
    \* ^tôi\s+muốn\s+(tìm|mua)\s+
    << Lit("tôi"), S1, Lit("muốn"), S1, AltG({ <<Lit("tìm")>>, <<Lit("mua")>> }), S1 >>,
    \* ^tìm\s+(cho\s+tôi\s+)?
    << Lit("tìm"), S1, OptG({ << Lit("cho"), S1, Lit("tôi"), S1 >> }) >>,
    \* ^cho\s+tôi\s+(xem|tìm)\s+
    << Lit("cho"), S1, Lit("tôi"), S1, AltG({ <<Lit("xem")>>, <<Lit("tìm")>> }), S1 >>,
    \* ^tìm\s+giúp\s+tôi\s+
    << Lit("tìm"), S1, Lit("giúp"), S1, Lit("tôi"), S1 >>,
    \* ^mua\s+cho\s+tôi\s+
    << Lit("mua"), S1, Lit("cho"), S1, Lit("tôi"), S1 >>,
    \* ^có\s+
    << Lit("có"), S1 >>
>>

\* str.strip() for the space character
RECURSIVE LStrip(_)
LStrip(s) == IF Len(s) > 0 /\ IsSpace(SubSeq(s, 1, 1)) THEN LStrip(SubSeq(s, 2, Len(s))) ELSE s

RECURSIVE RStrip(_)
RStrip(s) == IF Len(s) > 0 /\ IsSpace(SubSeq(s, Len(s), Len(s))) THEN RStrip(SubSeq(s, 1, Len(s) - 1)) ELSE s

strip(s) == RStrip(LStrip(s))

\* re.sub(pattern, '', text, flags=re.IGNORECASE) for a pattern anchored at the
\* start: the greedy match is the longest one, every optional group of these
\* patterns being taken whenever it matches
RemovePrefix(pat, text) ==
    LET ends == MatchEnds(pat, 1, lower(text), 1)
    IN  IF ends = {} THEN text ELSE SubSeq(text, SetMax(ends), Len(text))

RECURSIVE RemovePrefixes(_, _, _)
RemovePrefixes(pats, i, text) ==
    IF i > Len(pats) \/ text = "" THEN text ELSE RemovePrefixes(pats, i + 1, RemovePrefix(pats[i], text))

\* re.sub(r'\s+', ' ', text)
RECURSIVE CollapseSpaces(_)
CollapseSpaces(s) ==
    IF Len(s) = 0 THEN ""
    ELSE IF IsSpace(SubSeq(s, 1, 1))
         THEN " " \o CollapseSpaces(SubSeq(s, 1 + RunLen(s, 1, "s"), Len(s)))
         ELSE SubSeq(s, 1, 1) \o CollapseSpaces(SubSeq(s, 2, Len(s)))

extract_product_name(user_text) ==
    IF user_text = "" THEN ""
    ELSE strip(CollapseSpaces(RemovePrefixes(en_patterns \o vi_patterns, 1, strip(user_text))))

(***************************************************************************)
(* Results of a handler run                                                *)
(***************************************************************************)
\* run() returned the list of events
Returned(trace, events) == [trace |-> trace, events |-> events, raised |-> FALSE]

\* run() was left by an exception
Raised(trace) == [trace |-> trace, events |-> << >>, raised |-> TRUE]

SlotSet(name, value) == [event |-> "slot", name |-> name, value |-> value]

(***************************************************************************)
(* Gemini-backed actions (the message texts are those of the source,       *)
(* without their emoji)                                                    *)
(***************************************************************************)
\* the system prompt, line by line
GEMINI_SYSTEM_PROMPT ==
    JoinLines(<<
        "You are LeCas Virtual Shopping Assistant - representing a pioneering menswear brand founded in 2025.",
        "",
        "BRAND IDENTITY:",
        "- Brand: LeCas - Redefining casual male fashion",
        "- Slogan: \"Casually Elegant Every Moment\"",
        "- Focus: Premium menswear essentials for the modern man who believes in subtle power dressing",
        "- Core Values: Quality First, Customer Focused, Authenticity, Sustainability",
        "- Tone: Professional yet friendly, confident, sophisticated but approachable",
        "",
        "YOUR ROLE: Fashion Knowledge Consultant",
        "",
        "YOU CAN answer about:",
        "- General fashion style advice (how to match clothes, color coordination)",
        "- Material knowledge and care (cotton, polyester, denim, wool properties)",
        "- Body type and fit guidance for menswear (slim fit vs regular, what suits different shapes)",
        "- Fashion trends for modern men (seasonal trends, classic styles)",
        "- Styling for different occasions (casual, formal, business, smart casual)",
        "- General wardrobe building and clothing care tips",
        "",
        "REDIRECT to our system for:",
        "- Specific product prices or costs",
        "- Stock availability",
        "- Order status or tracking",
        "- Shipping times or delivery information",
        "- Store promotions, discounts, or coupon codes",
        "- Specific product details from our inventory",
        "- Product comparisons from our store catalog",
        "",
        "RESPONSE STYLE:",
        "- Be confident and reassuring (use phrases like Absolutely, Best of all)",
        "- Sound sophisticated yet effortless (match Casually Elegant philosophy)",
        "- Keep responses concise (2-3 sentences)",
        "- Use structured format when listing (bullet points)",
        "- Subtle emoji use (1-2 maximum, not excessive)",
        "- Show expertise while being helpful and supportive",
        "",
        "CRITICAL: If asked about forbidden topics, say: I do not have access to that specific information from our store system. Let me connect you with our product database to get accurate details.",
        "",
        "Keep responses concise (2-3 sentences), friendly, and helpful within your allowed scope." >>)

\* the prompts the three actions hand to handle_open_ended_query
ask_gemini_prompt(user_message) ==
    GEMINI_SYSTEM_PROMPT \o "\n\nUser question: \"" \o user_message \o "\"\n\n"
    \o "Provide helpful, friendly advice within your allowed scope. Be concise (2-3 sentences)."

fallback_prompt(user_message) ==
    GEMINI_SYSTEM_PROMPT \o "\n\nUser question: \"" \o user_message \o "\"\n\n"
    \o "Provide helpful advice within your allowed scope. Be concise (2-3 sentences)."

\* history: the user and bot events kept, at most the last 6 of them used
RECURSIVE HistoryLines(_, _)
HistoryLines(history, i) ==
    IF i > Len(history) THEN << >>
    ELSE << (IF history[i].event = "user" THEN "USER" ELSE "ASSISTANT") \o ": "
            \o Prefix(history[i].text, 100) >>
         \o HistoryLines(history, i + 1)

history_prompt(history, user_message) ==
    GEMINI_SYSTEM_PROMPT \o "\n\nConversation history (for context):\n"
    \o JoinLines(HistoryLines(history, IF Len(history) > 6 THEN Len(history) - 5 ELSE 1))
    \o "\n\nCurrent user question: \"" \o user_message \o "\"\n\n"
    \o "Provide helpful advice based on the conversation context. Be concise (2-3 sentences)."

\* the filter is skipped and the raw text is sent
validated_reply_unfiltered(raw, user_text, log_outcome) ==
    << GetApiClient >> \o log_gemini_call(log_outcome).calls \o << Utter(raw, "gemini_ai", FALSE) >>

\* the block shared by the three actions once Gemini answered with a
\* non-empty text: validate, log the call, send the filter's second output
validated_reply(raw, user_text, log_outcome) ==
    LET v == validate_gemini_response(raw, user_text)
    IN  << Validation(raw), GetApiClient >>
        \o log_gemini_call(log_outcome).calls
        \o << Utter(v.text, "gemini_ai", FALSE) >>

\* the replies of the branches taken when gemini.model is falsy
AskGeminiUnavailable ==
    "I can help with product searches, sizing, and style advice! What would you like to know?"

HistoryUnavailable == "I can help you with various questions! What would you like to know?"

ActionAskGemini_run(user_text, e, gemini_outcome, log_outcome) ==
    IF user_text = ""
    THEN Returned(<< Utter("Could you repeat that?", "rasa_template", FALSE) >>, << >>)
    ELSE IF ~gemini_has_model(e)
    THEN Raised(<< GetGeminiClient >>)                   \* gemini.model: AttributeError
    ELSE LET result == handle_open_ended_query(ask_gemini_prompt(user_text), e, gemini_outcome) IN
         IF result.success /\ result.response # ""
         THEN Returned(<< GetGeminiClient >> \o result.calls
                       \o validated_reply(result.response, user_text, log_outcome)
                       \o << Utter("Can I help with anything else?", "rasa_template", FALSE) >>,
                       << >>)
         ELSE Returned(<< GetGeminiClient >> \o result.calls
                       \o << Utter("I'm here to help with products, styling, and fashion advice! What would you like to know?",
                                   "rasa_template", FALSE) >>,
                       << >>)

\* the user and bot events among the last 10 events of the tracker
conversation_history(events) ==
    SelectSeq(SubSeq(events, IF Len(events) > 10 THEN Len(events) - 9 ELSE 1, Len(events)),
              LAMBDA ev : ev.event \in {"user", "bot"})

ActionAskGeminiWithHistory_run(user_text, events, e, gemini_outcome, log_outcome) ==
    IF user_text = ""
    THEN Returned(<< Utter("I didn't catch that. Could you please repeat?", "rasa_template", FALSE) >>, << >>)
    ELSE IF ~gemini_has_model(e)
    THEN Raised(<< GetGeminiClient >>)                   \* gemini_client.model: AttributeError
    ELSE IF conversation_history(events) = << >>
    THEN Returned(<< GetGeminiClient,
                     Utter("Let's start fresh! What would you like to know?", "rasa_template", FALSE) >>,
                  << >>)
    ELSE LET result == handle_open_ended_query(history_prompt(conversation_history(events), user_text),
                                               e, gemini_outcome) IN
         IF result.success /\ result.response # ""
         THEN Returned(<< GetGeminiClient >> \o result.calls
                       \o validated_reply(result.response, user_text, log_outcome),
                       << >>)
         ELSE Returned(<< GetGeminiClient >> \o result.calls
                       \o << Utter("I'm here to help! What would you like to know?", "rasa_template", FALSE) >>,
                       << >>)

(***************************************************************************)
(* ActionFallback                                                          *)
(***************************************************************************)
out_of_scope_keywords ==
    { "weather", "forecast", "temperature", "rain", "news", "politics",
      "movie", "film", "music", "song", "concert", "game", "sport",
      "restaurant", "food", "recipe", "cooking", "eat", "dinner", "lunch",
      "flight", "hotel", "travel", "vacation", "trip", "booking",
      "software", "download", "install", "code", "program",
      "doctor", "medicine", "health", "disease", "symptom",
      "who is", "what is", "when was", "where is", "how to",
      "explain", "define", "meaning of" }

fashion_words ==
    { "shirt", "pants", "dress", "jacket", "shoe", "bag",
      "clothes", "wear", "fashion", "style", "fit", "size" }

\* product names the source gives as examples of what users search for
product_examples == { "tanktop", "shirts" }

is_out_of_scope(message) ==
    LET message_lower == lower(message)
        fashion_context == \E w \in fashion_words : Contains(message_lower, w)
    IN  \E keyword \in out_of_scope_keywords :
            Contains(message_lower, keyword) /\ ~fashion_context

ScopeReminder ==
    "I'm a fashion shopping assistant, so I can only help with:\n\n"
    \o "- Product searches & recommendations\n"
    \o "- Sizing, styling & fit advice\n"
    \o "- Order tracking & support\n"
    \o "- Shipping & return policies\n\n"
    \o "For other topics, please consult the appropriate service!"

EscalationOffer ==
    "I'm having trouble understanding your request.\n\n"
    \o "Would you like me to connect you with a human support agent who can help? "
    \o "Just say 'I want to speak to support' or 'Contact customer service'."

StandardFallback ==
    "Sorry, I didn't quite understand that\n\n"
    \o "I can help you with:\n"
    \o "- Product search & advice (shirts, pants, accessories)\n"
    \o "- Size, material, and styling advice\n"
    \o "- Order tracking\n"
    \o "- Shipping and return policies\n"
    \o "- Promotions & discounts\n\n"
    \o "What can I help you with?"

\* the threshold is off by one
EscalateAfterThree == 2 + 1

\* Escalate to human after this many consecutive failures
EscalateAfter == 2

ActionFallback_run(user_text, slot, e, gemini_outcome, log_outcome) ==
    LET count == (IF slot = NoneInt THEN 0 ELSE slot) + 1
        standard == << Utter(StandardFallback, "rasa_template", FALSE) >>
    IN
    IF is_out_of_scope(user_text)
    THEN Returned(<< Utter(ScopeReminder, "rasa_template", FALSE) >>, << SlotSet("fallback_count", 0) >>)
    ELSE IF count >= EscalateAfter
    THEN Returned(<< Utter(EscalationOffer, "rasa_template", FALSE) >>, << SlotSet("fallback_count", count) >>)
    ELSE IF ~gemini_has_model(e)
    THEN Raised(<< GetGeminiClient >>)                   \* gemini_client.model: AttributeError
    ELSE LET rag_result == handle_open_ended_query(fallback_prompt(user_text), e, gemini_outcome) IN
         IF rag_result.success /\ rag_result.response # ""
         THEN Returned(<< GetGeminiClient >> \o rag_result.calls
                       \o validated_reply(rag_result.response, user_text, log_outcome)
                       \o << Utter("Can I help you with anything else?", "rasa_template", FALSE) >>,
                       << SlotSet("fallback_count", 0) >>)
         ELSE Returned(<< GetGeminiClient >> \o rag_result.calls \o standard,
                       << SlotSet("fallback_count", count) >>)

(***************************************************************************)
(* Authentication helpers                                                  *)
(***************************************************************************)
IsNumeric(s) == Len(s) > 0 /\ \A i \in 1..Len(s) : IsDigit(SubSeq(s, i, i))

\* int(s) of a decimal string
RECURSIVE ParseInt(_)
ParseInt(s) ==
    IF Len(s) = 0 THEN 0
    ELSE 10 * ParseInt(SubSeq(s, 1, Len(s) - 1))
         + (CHOOSE d \in 0..9 : SubSeq(DigitChars, d + 1, d + 1) = SubSeq(s, Len(s), Len(s)))

\* get_customer_id_from_tracker of actions.py: metadata, then slot, then the
\* backend's verification of the JWT token; int() of a non-numeric id raises
get_customer_id_from_tracker(meta_customer_id, slot_customer_id, meta_jwt, verify_outcome) ==
    IF meta_customer_id # NoneStr
    THEN [raised |-> ~IsNumeric(meta_customer_id),
          customer_id |-> IF IsNumeric(meta_customer_id) THEN ParseInt(meta_customer_id) ELSE NoneInt,
          calls |-> << >>]
    ELSE IF slot_customer_id # NoneStr
    THEN [raised |-> ~IsNumeric(slot_customer_id),
          customer_id |-> IF IsNumeric(slot_customer_id) THEN ParseInt(slot_customer_id) ELSE NoneInt,
          calls |-> << >>]
    ELSE IF meta_jwt # NoneStr
    THEN LET r == verify_token(meta_jwt, verify_outcome)
             verified == /\ ~r.raised
                         /\ r.result.shape = "dict"
                         /\ r.result.success
                         /\ r.result.data_dict
                         /\ r.result.customer_id # 0
         IN  \* every exception of the block is caught and leads to None
             [raised |-> FALSE,
              customer_id |-> IF verified THEN r.result.customer_id ELSE NoneInt,
              calls |-> << GetApiClient >> \o r.calls]
    ELSE [raised |-> FALSE, customer_id |-> NoneInt, calls |-> << >>]

\* get_customer_id_from_tracker of action_delivery_status.py: metadata or
\* slot, a non-numeric id gives None
delivery_get_customer_id_from_tracker(meta_customer_id, slot_customer_id) ==
    LET customer_id == IF meta_customer_id # NoneStr THEN meta_customer_id ELSE slot_customer_id
    IN  IF customer_id # NoneStr /\ IsNumeric(customer_id) THEN ParseInt(customer_id) ELSE NoneInt

\* get_jwt_token_from_tracker, and the same expression inlined in actions.py
get_jwt_token_from_tracker(meta_jwt, slot_jwt) == IF meta_jwt # NoneStr THEN meta_jwt ELSE slot_jwt

\* not customer_id
NoCustomer(customer_id) == customer_id = NoneInt \/ customer_id = 0

\* s.replace(old, "") for a one-character old
RECURSIVE RemoveChar(_, _)
RemoveChar(s, c) ==
    IF Len(s) = 0 THEN ""
    ELSE (IF SubSeq(s, 1, 1) = c THEN "" ELSE SubSeq(s, 1, 1)) \o RemoveChar(SubSeq(s, 2, Len(s)), c)

UpperChar(c) ==
    IF c \in CharsOf(LowerChars)
    THEN LET i == CHOOSE j \in 1..Len(LowerChars) : SubSeq(LowerChars, j, j) = c
         IN  SubSeq(UpperChars, i, i)
    ELSE c

IsLetter(c) == c \in CharsOf(LowerChars) \cup CharsOf(UpperChars)

\* str.title(): a letter is upper-cased after a non-letter, lower-cased after a letter
RECURSIVE TitleFrom(_, _)
TitleFrom(s, i) ==
    IF i > Len(s) THEN ""
    ELSE LET c == SubSeq(s, i, i)
         IN  (IF IsLetter(CharAt(s, i - 1)) THEN LowerChar(c) ELSE UpperChar(c)) \o TitleFrom(s, i + 1)

title(s) == TitleFrom(s, 1)

(***************************************************************************)
(* ActionSearchProducts                                                    *)
(***************************************************************************)
search_out_of_scope_keywords ==
    { "weather", "forecast", "temperature", "rain", "news", "movie", "song",
      "restaurant", "recipe", "flight", "hotel" }

SearchScopeReminder ==
    "I'm a fashion shopping assistant focused on menswear! I can help you with:\n\n"
    \o "- Product searches & recommendations\n"
    \o "- Styling advice & fit guidance\n"
    \o "- Order tracking & policies\n\n"
    \o "What can I help you find today?"

CatalogTrouble == "I'm having trouble connecting to the product catalog right now."

SearchOops == "Oops, something went wrong. Please try again later!"

Take(seq, n) == SubSeq(seq, 1, IF Len(seq) < n THEN Len(seq) ELSE n)

ActionSearchProducts_run(product_type, product_name, user_text, outcome) ==
    LET entity == IF product_name # NoneStr THEN product_name ELSE product_type
        search_query == IF entity # NoneStr THEN entity
                        ELSE IF user_text # "" THEN extract_product_name(user_text) ELSE NoneStr
        failed == << SlotSet("products_found", FALSE) >>
    IN
    IF search_query = ""
    THEN Returned(<< Utter("What are you looking for? Shirts, pants, jackets, or maybe some accessories?",
                           "rasa_template", FALSE) >>, << >>)
    ELSE IF \E keyword \in search_out_of_scope_keywords : Contains(lower(user_text), keyword)
    THEN Returned(<< Utter(SearchScopeReminder, "rasa_template", FALSE) >>, failed)
    ELSE LET r == search_products(search_query, 5, NoneInt, NoneInt, outcome)
             calls == << GetApiClient >> \o r.calls
             result == r.result
         IN
         IF r.raised
         THEN Returned(calls \o << Utter(SearchOops, "backend", TRUE) >>, failed)
         ELSE IF result.shape = "dict" /\ result.error
         THEN Returned(calls \o << Utter(CatalogTrouble, "backend", TRUE) >>, failed)
         ELSE IF result.shape = "dict" /\ result.success /\ ~result.data_dict /\ result.data # << >>
         THEN \* "data" is a list: data.get raises, caught by except Exception
              Returned(calls \o << Utter(SearchOops, "backend", TRUE) >>, failed)
         ELSE LET products == IF result.shape = "dict" /\ result.success /\ result.data_dict
                              THEN result.data_products
                              ELSE result.products
              IN  IF products = << >>
                  THEN Returned(calls \o << Utter("Sorry, I couldn't find any products matching '"
                                                  \o search_query \o "'\n\nCould you describe it differently?",
                                                  "backend", FALSE) >>, failed)
                  ELSE Returned(calls
                                \o << Utter("Found " \o ToString(Len(products)) \o " products for '"
                                            \o search_query \o "':", "", FALSE),
                                      Utter("Click on any product to see details!", "", FALSE) >>,
                                << SlotSet("products_found", TRUE),
                                   SlotSet("last_search_query", search_query),
                                   SlotSet("last_products", Take(products, 10)) >>)

(***************************************************************************)
(* ActionSearchByPrice (messages without their emoji)                      *)
(***************************************************************************)
\* float(str(s).replace("$", "").strip()) of an entity holding a whole
\* amount; anything else is a ValueError, which leaves the price None
parse_price(s) ==
    LET digits == strip(RemoveChar(s, "$"))
    IN  IF s # NoneStr /\ IsNumeric(digits) THEN ParseInt(digits) ELSE NoneInt

\* not price: None or 0.0
NoPrice(price) == price = NoneInt \/ price = 0

\* price_range_msg / price_desc; f"${price}" of a float holding a whole amount
price_range(min_price, max_price) ==
    LET price_text(price) == "$" \o ToString(price) \o ".0" IN
    IF ~NoPrice(min_price) /\ ~NoPrice(max_price)
    THEN "between " \o price_text(min_price) \o " and " \o price_text(max_price)
    ELSE IF ~NoPrice(max_price) THEN "under " \o price_text(max_price)
    ELSE IF ~NoPrice(min_price) THEN "over " \o price_text(min_price)
    ELSE ""

\* the lines of the products i..last, for products with a numeric "price",
\* no "selling_price" and no "available_colors"
RECURSIVE PriceLines(_, _, _)
PriceLines(products, i, last) ==
    IF i > last THEN ""
    ELSE ToString(i) \o ". **" \o products[i].name \o "** - $" \o ToString(products[i].price) \o ".00 "
         \o (IF products[i].stock > 0 THEN "in stock" ELSE "out of stock") \o "\n"
         \o PriceLines(products, i + 1, last)

ActionSearchByPrice_run(max_price_str, min_price_str, product_type, outcome) ==
    LET max_price == parse_price(max_price_str)
        min_price == parse_price(min_price_str)
        failed == << SlotSet("products_found", FALSE) >>
    IN
    IF NoPrice(max_price) /\ NoPrice(min_price)
    THEN Returned(<< Utter("What's your budget? For example: 'under $20' or 'between $10 and $50'",
                           "", FALSE) >>, << >>)
    ELSE LET r == search_products(product_type, 10, min_price, max_price, outcome)
             calls == << GetApiClient >> \o r.calls
             products == IF r.result.shape = "dict" THEN r.result.products ELSE << >>
         IN
         IF r.raised
         THEN Returned(calls \o << Utter("Oops, I had trouble searching by price. Please try again!",
                                         "", FALSE) >>, failed)
         ELSE IF products = << >>
         THEN Returned(calls \o << Utter("I couldn't find products " \o price_range(min_price, max_price)
                                         \o " \n\nWould you like to try a different price range?",
                                         "", FALSE) >>, failed)
         ELSE Returned(calls \o << Utter("Found " \o ToString(Len(products)) \o " products "
                                         \o price_range(min_price, max_price) \o ":\n\n"
                                         \o PriceLines(products, 1, Len(Take(products, 5)))
                                         \o "\nWhich one interests you?", "", FALSE) >>,
                       << SlotSet("products_found", TRUE),
                          SlotSet("last_products", Take(products, 10)) >>)

(***************************************************************************)
(* ActionCheckDiscount                                                     *)
(***************************************************************************)
DiscountTrouble ==
    "I couldn't fetch the current discounts right now. Please check our sale section on the website."

NoDiscounts ==
    "There are no special discounts available at the moment, but we update our deals regularly!"

RECURSIVE DiscountLines(_, _)
DiscountLines(products, i) ==
    IF i > Len(products) \/ i > 5 THEN ""
    ELSE ToString(i) \o ". **" \o products[i] \o "**\n" \o "   **$0**\n\n"
         \o DiscountLines(products, i + 1)

\* the error check is missing
ActionCheckDiscount_run_unchecked(outcome) ==
    LET r == get_top_discounts(10, outcome)
        calls == << GetApiClient >> \o r.calls
    IN
    IF r.raised \/ r.result.shape = "list"
    THEN Raised(calls)
    ELSE IF r.result.data = << >>
    THEN Returned(calls \o << Utter(NoDiscounts, "", FALSE) >>, << >>)
    ELSE Returned(calls \o << Utter("**Top Discounted Products:**\n\n" \o DiscountLines(r.result.data, 1)
                                    \o "Would you like to know more about any of these products?",
                                    "", FALSE) >>,
                  << SlotSet("last_products", r.result.data) >>)

ActionCheckDiscount_run(outcome) ==
    LET r == get_top_discounts(10, outcome)
        calls == << GetApiClient >> \o r.calls
    IN
    IF r.raised \/ r.result.shape = "list"
    THEN Raised(calls)                                   \* nothing catches; list.get: AttributeError
    ELSE IF r.result.error
    THEN Returned(calls \o << Utter(DiscountTrouble, "", FALSE) >>, << >>)
    ELSE IF r.result.data = << >>
    THEN Returned(calls \o << Utter(NoDiscounts, "", FALSE) >>, << >>)
    ELSE Returned(calls \o << Utter("**Top Discounted Products:**\n\n" \o DiscountLines(r.result.data, 1)
                                    \o "Would you like to know more about any of these products?",
                                    "", FALSE) >>,
                  << SlotSet("last_products", r.result.data) >>)

(***************************************************************************)
(* ActionGetDeliveryStatus                                                 *)
(***************************************************************************)
DeliverySignIn == "To check delivery status, please sign in to your account first."

DeliveryAskOrder ==
    "Please provide your order number so I can check the delivery status.\n\n"
    \o "Example: \"Check delivery for order 0000000032\""

DeliveryUnavailable ==
    "Sorry, I couldn't retrieve delivery information at the moment. Please try again later."

DeliveryNotFound(order_number) ==
    "Sorry, I couldn't find delivery information for order " \o order_number
    \o ". Please verify your order number."

DeliveryRetry == "Sorry, I couldn't retrieve your order information. Please try again."

\* the reply for a delivery estimation without estimated_delivery,
\* destination and tracking_url
DeliveryReply(result, order_number) ==
    LET status == lower(result.status)
        order_num == IF result.order_number # "" THEN result.order_number ELSE order_number
        head == "**Order #" \o order_num \o "**\n\n"
    IN
    CASE status = "pending" ->
            head \o "Your order is currently **pending confirmation** and has not been shipped yet.\n\n"
                 \o "Once it is confirmed and shipped, we'll be able to provide an estimated delivery date.\n\n"
                 \o "Would you like to know more about our delivery options?"
      [] status \in {"confirmed", "processing"} ->
            head \o "Your order has been **confirmed** and is being prepared for shipment.\n\n"
                 \o "Once it is shipped, we'll update you with an estimated delivery date and tracking details.\n\n"
                 \o "Standard delivery typically takes:\n"
                 \o "- Major cities: 1-2 business days\n"
                 \o "- Other provinces: 3-5 business days"
      [] status \in {"shipping", "shipped"} ->
            head \o "Your order is currently **on the way**!\n\n"
                 \o "**Shipping method:** Standard\n"
                 \o "\nIs there anything else you'd like to know about your delivery?"
      [] status = "delivered" ->
            head \o "Your order has been **delivered**.\n\n"
                 \o "If you haven't received it yet or have any concerns about the delivery, "
                 \o "please let me know and I'll help you contact our support team."
      [] status = "cancelled" ->
            head \o "This order has been **cancelled**.\n\n"
                 \o "If you have any questions about this cancellation, please contact our support team."
      [] OTHER ->
            head \o "Current status: **" \o title(status) \o "**\n\n"
                 \o (IF result.message # "" THEN result.message \o "\n\n" ELSE "")
                 \o "For detailed information, please contact our support team."

\* the order-number check is made first
ActionGetDeliveryStatus_run_order_first(order_number, meta_customer_id, slot_customer_id, meta_jwt, slot_jwt, outcome) ==
    LET customer_id == delivery_get_customer_id_from_tracker(meta_customer_id, slot_customer_id)
        user_token == get_jwt_token_from_tracker(meta_jwt, slot_jwt)
    IN
    IF order_number = NoneStr
    THEN Returned(<< Utter(DeliveryAskOrder, "", FALSE) >>, << >>)
    ELSE IF NoCustomer(customer_id) \/ user_token = NoneStr
    THEN Returned(<< Utter(DeliverySignIn, "", FALSE) >>, << >>)
    ELSE LET r == get_delivery_estimation(RemoveChar(order_number, "#"), user_token, outcome)
         IN  Returned(<< GetApiClient >> \o r.calls \o << Utter(DeliveryRetry, "", FALSE) >>, << >>)

ActionGetDeliveryStatus_run(order_number, meta_customer_id, slot_customer_id, meta_jwt, slot_jwt, outcome) ==
    LET customer_id == delivery_get_customer_id_from_tracker(meta_customer_id, slot_customer_id)
        user_token == get_jwt_token_from_tracker(meta_jwt, slot_jwt)
    IN
    IF NoCustomer(customer_id) \/ user_token = NoneStr
    THEN Returned(<< Utter(DeliverySignIn, "", FALSE) >>, << >>)
    ELSE IF order_number = NoneStr
    THEN Returned(<< Utter(DeliveryAskOrder, "", FALSE) >>, << >>)
    ELSE LET r == get_delivery_estimation(RemoveChar(order_number, "#"), user_token, outcome)
             calls == << GetApiClient >> \o r.calls
         IN
         IF r.raised
         THEN Returned(calls \o << Utter(DeliveryUnavailable, "", FALSE) >>, << >>)
         ELSE IF r.result.shape = "list"
         THEN Raised(calls)                              \* list.get: AttributeError
         ELSE IF r.result.error
         THEN IF Contains(lower(r.result.message), "not found")
              THEN Returned(calls \o << Utter(DeliveryNotFound(order_number), "", FALSE) >>, << >>)
              ELSE Returned(calls \o << Utter(DeliveryRetry, "", FALSE) >>, << >>)
         ELSE Returned(calls \o << Utter(DeliveryReply(r.result, order_number), "", FALSE) >>, << >>)

(***************************************************************************)
(* ActionTrackOrder                                                        *)
(***************************************************************************)
TrackSignIn == "To track your order, please sign in to your account first."

TrackNoProductOrders(product_name) ==
    "I couldn't find any orders with '" \o product_name
    \o "'. Please verify the product name or provide your order number."

TrackRetrieveFailed ==
    "I couldn't retrieve your orders. Please try again or provide a specific order number."

TrackNoOrdersYet == "You don't have any orders yet. Start shopping to place your first order!"

TrackOrderNotFound(order_number) ==
    "Sorry, I couldn't find order " \o order_number \o ". Please verify and try again."

\* the lines of the orders i..last, for orders without created_at
RECURSIVE MatchLines(_, _, _)
MatchLines(orders, i, last) ==
    IF i > Len(orders) \/ i > last THEN ""
    ELSE ToString(i) \o ". Order #" \o orders[i].order_number \o " - " \o orders[i].status \o " (None)\n"
         \o MatchLines(orders, i + 1, last)

\* the lines of the order list, for orders without total and created_at
RECURSIVE RecentLines(_, _, _)
RecentLines(orders, i, last) ==
    IF i > Len(orders) \/ i > last THEN ""
    ELSE ToString(i) \o ". **#" \o orders[i].order_number \o "** - "
         \o title(IF orders[i].status # "" THEN orders[i].status ELSE "Unknown") \o " - N/A\n"
         \o "   N/A\n\n"
         \o RecentLines(orders, i + 1, last)

\* the reply for an order without payment_status, created_at and total
OrderReply(order, order_number) ==
    "**Order #" \o order_number \o "**\n\n"
    \o "**Status:** " \o (IF order.status # "" THEN title(order.status) ELSE "Unknown") \o "\n"
    \o "**Placed on:** N/A\n"
    \o "**Total:** N/A\n\n"
    \o (IF order.tracking_number # "" THEN "**Tracking Number:** " \o order.tracking_number \o "\n\n" ELSE "")
    \o "Is there anything else you'd like to know about your order?"

\* the final block of the run: the details of one order
order_details_block(calls, order_id, order_number, user_token, details_outcome) ==
    LET r == get_order_details(order_id, user_token, details_outcome)
        all == calls \o r.calls
    IN  IF r.raised \/ r.result.shape = "list"
        THEN Raised(all)                                 \* nothing catches; list.keys: AttributeError
        ELSE IF r.result.error
        THEN Returned(all \o << Utter(TrackOrderNotFound(order_number), "", FALSE) >>, << >>)
        ELSE Returned(all \o << Utter(OrderReply(r.result, order_number), "", FALSE) >>,
                      << SlotSet("last_order", r.result) >>)

\* the sign-in check is missing: the recent orders are requested for a
\* visitor as well (no answer was drawn for that request: it times out)
ActionTrackOrder_run_unauthenticated(order_number, product_name, meta_customer_id, slot_customer_id, meta_jwt, slot_jwt, verify_outcome, orders_outcome, details_outcome) ==
    LET auth == get_customer_id_from_tracker(meta_customer_id, slot_customer_id, meta_jwt, verify_outcome)
        user_token == get_jwt_token_from_tracker(meta_jwt, slot_jwt)
        r == get_user_orders(user_token, 5,
                             IF orders_outcome.kind = "unused" THEN TimeoutFailure ELSE orders_outcome)
        listed == auth.calls \o << GetApiClient >> \o r.calls
    IN
    IF auth.raised
    THEN Raised(auth.calls)
    ELSE IF r.raised \/ r.result.shape = "list"
    THEN Raised(listed)
    ELSE IF r.result.error \/ r.result.data = << >>
    THEN Returned(listed \o << Utter(TrackRetrieveFailed, "", FALSE) >>, << >>)
    ELSE Returned(listed \o << Utter("**Your Recent Orders** (" \o ToString(Len(r.result.data))
                                     \o " orders)\n\n"
                                     \o RecentLines(r.result.data, 1, 5)
                                     \o "Reply with an order number to see details (e.g., '0000000001')",
                                     "", FALSE) >>,
                  << >>)

ActionTrackOrder_run(order_number, product_name, meta_customer_id, slot_customer_id, meta_jwt, slot_jwt, verify_outcome, orders_outcome, details_outcome) ==
    LET auth == get_customer_id_from_tracker(meta_customer_id, slot_customer_id, meta_jwt, verify_outcome)
        user_token == get_jwt_token_from_tracker(meta_jwt, slot_jwt)
        calls == auth.calls \o << GetApiClient >>
    IN
    IF auth.raised
    THEN Raised(auth.calls)                              \* int(): ValueError
    ELSE IF NoCustomer(auth.customer_id)
    THEN Returned(auth.calls \o << Utter(TrackSignIn, "", FALSE) >>, << >>)
    ELSE IF product_name # NoneStr /\ order_number = NoneStr
    THEN LET r == search_purchased_products(product_name, user_token, orders_outcome)
             found == calls \o r.calls
         IN  IF r.raised
             THEN Raised(found)
             ELSE IF r.result.error \/ r.result.data = << >>
             THEN Returned(found \o << Utter(TrackNoProductOrders(product_name), "", FALSE) >>, << >>)
             ELSE IF Len(r.result.data) = 1
             THEN order_details_block(found, r.result.data[1].id, r.result.data[1].order_number,
                                      user_token, details_outcome)
             ELSE Returned(found \o << Utter("I found " \o ToString(Len(r.result.data)) \o " orders with '"
                                             \o product_name \o "':\n\n"
                                             \o MatchLines(r.result.data, 1, 3)
                                             \o "\nWhich order would you like to track?", "", FALSE) >>,
                           << >>)
    ELSE IF order_number # NoneStr
    THEN order_details_block(calls, RemoveChar(order_number, "#"), order_number, user_token, details_outcome)
    ELSE LET r == get_user_orders(user_token, 5, orders_outcome)
             listed == calls \o r.calls
         IN  IF r.raised \/ r.result.shape = "list"
             THEN Raised(listed)                         \* nothing catches; list.get: AttributeError
             ELSE IF r.result.error \/ r.result.data = << >>
             THEN Returned(listed \o << Utter(TrackRetrieveFailed, "", FALSE) >>, << >>)
             ELSE IF Len(r.result.data) = 0
             THEN Returned(listed \o << Utter(TrackNoOrdersYet, "", FALSE) >>, << >>)
             ELSE Returned(listed \o << Utter("**Your Recent Orders** (" \o ToString(Len(r.result.data))
                                              \o " orders)\n\n"
                                              \o RecentLines(r.result.data, 1, 5)
                                              \o "Reply with an order number to see details (e.g., '0000000001')",
                                              "", FALSE) >>,
                           << >>)

(***************************************************************************)
(* Inputs of the handlers                                                  *)
(***************************************************************************)
\* largest value of the fallback_count slot from which ActionFallback still runs
MaxFallbackCount == 3

\* user messages of the Gemini-backed actions
UserTexts ==
    { "", "what goes with navy chinos", "what is the weather today", "what is the best shirt style",
      "how to wash a tanktop" }

GeminiTexts ==
    { "", "Cotton is breathable and great for summer.",
      "This shirt costs around $25-30 and is very affordable.",
      "It is IN STOCK now.", OrderStatusResponse }

GeminiOutcomes == { GeminiText(t) : t \in GeminiTexts } \cup { GeminiException }

\* tracker.events seen by ActionAskGeminiWithHistory
UserEvent(t) == [event |-> "user", text |-> t]
BotEvent(t) == [event |-> "bot", text |-> t]
OtherEvent == [event |-> "action", text |-> ""]

Histories ==
    { << >>, << OtherEvent >>, << UserEvent("hello"), OtherEvent, BotEvent("Hi! How can I help?") >> }

\* placeholder for the outcome of a call that the run does not make
Unused == [kind |-> "unused", status |-> 0, text |-> "", body |-> EmptyDict]

WhenCalled(called, outcomes) == IF called THEN outcomes ELSE { Unused }

WhenAsked(asked, outcomes) == IF asked THEN outcomes ELSE { NoText }

LogOutcomes ==
    { Ok([EmptyDict EXCEPT !.success = TRUE]), HttpError(500, "Internal Server Error"),
      TimeoutFailure, InvalidJsonRaw }

SearchTexts == { "", "find me a polo", "Show me  some linen shirts", "weather forecast" }

ProductEntities == { NoneStr, "jacket" }

SearchOutcomes ==
    { Ok([EmptyDict EXCEPT !.success = TRUE, !.data_dict = TRUE, !.data_products = << "Slim Polo", "Pique Polo" >>]),
      Ok([EmptyDict EXCEPT !.success = TRUE, !.data_dict = TRUE]),
      Ok([EmptyDict EXCEPT !.success = TRUE, !.data = << "Slim Polo" >>]),
      Ok([EmptyDict EXCEPT !.products = << "Linen Shirt" >>]),
      Ok(ListBody(<< "Linen Shirt" >>)) }
    \cup FailureOutcomes

\* max_price / min_price entities: absent, with and without the currency
\* sign, zero, and a word
PriceEntities == { NoneStr, "$20", "50", "0", "cheap" }

PriceOutcomes ==
    { Ok([EmptyDict EXCEPT !.products = << Product("Slim Polo", 25, "Soft pique cotton polo", TRUE, 3),
                                          Product("Oxford Shirt", 40, "Crisp oxford cloth", TRUE, 0) >>]),
      Ok(EmptyDict),
      Ok(ListBody(<< >>)),
      HttpError(500, "Internal Server Error"), TimeoutFailure, InvalidJsonRaw }

DiscountOutcomes ==
    { Ok([EmptyDict EXCEPT !.success = TRUE, !.data = << "Slim Polo", "Linen Shirt" >>]),
      Ok([EmptyDict EXCEPT !.success = TRUE]),
      Ok(ListBody(<< "Slim Polo" >>)) }
    \cup FailureOutcomes

\* absent, an id, the falsy id 0, and an id int() rejects
CustomerIds == { NoneStr, "7", "0", "guest" }

Tokens == { NoneStr, "eyJhbGciOi" }

OrderNumbers == { NoneStr, "#0000000032" }

PurchasedNames == { NoneStr, "shirt" }

VerifyOutcomes ==
    { Ok([EmptyDict EXCEPT !.success = TRUE, !.data_dict = TRUE, !.customer_id = 7]),
      Ok([EmptyDict EXCEPT !.success = TRUE, !.data_dict = TRUE]),
      Ok([EmptyDict EXCEPT !.error = TRUE, !.message = "Invalid token"]),
      HttpError(401, "Unauthorized"), TimeoutFailure, InvalidJsonRaw }

Order32 == [id |-> "32", order_number |-> "0000000032", status |-> "shipped", items |-> << "Linen Shirt" >>]
Order40 == [id |-> "40", order_number |-> "0000000040", status |-> "pending", items |-> << "Oxford shirt", "Chino Pants" >>]
Order41 == [id |-> "41", order_number |-> "0000000041", status |-> "delivered", items |-> << "Chino Pants" >>]

OrdersOutcomes ==
    { Ok([EmptyDict EXCEPT !.data = << >>]),
      Ok([EmptyDict EXCEPT !.data = << Order41 >>]),
      Ok([EmptyDict EXCEPT !.data = << Order32, Order41 >>]),
      Ok([EmptyDict EXCEPT !.data = << Order32, Order40 >>]),
      Ok(ListBody(<< Order32 >>)) }
    \cup FailureOutcomes

DetailsOutcomes ==
    { Ok([EmptyDict EXCEPT !.order_number = "0000000032", !.status = "shipped", !.tracking_number = "VN123"]),
      Ok(EmptyDict),
      Ok(ListBody(<< >>)) }
    \cup FailureOutcomes

DeliveryOutcomes ==
    { Ok([EmptyDict EXCEPT !.order_number = "0000000032", !.status = s]) :
         s \in { "pending", "processing", "Shipped", "delivered", "cancelled", "on hold" } }
    \cup { Ok(ListBody(<< >>)), ConnectionFailure("Host not found") }
    \cup FailureOutcomes

\* direct calls of the Gemini client
GeminiMethods ==
    { "handle_open_ended_query", "generate_response_with_context", "generate_response_with_products" }

GeminiQueries == { "", "what goes with navy chinos" }

ReturnPolicy == "Returns are accepted within 30 days."

ProductLists ==
    { << >>,
      << Product("Slim Polo", 25, "Soft pique cotton polo", TRUE, 3) >>,
      << Product("Oxford Shirt", 40, "Crisp oxford cloth", TRUE, 0),
         Product("Linen Shirt", 35, "", FALSE, 2) >> }

RequestOutcomes == { Ok([EmptyDict EXCEPT !.success = TRUE]), Ok(ListBody(<< "Slim Polo" >>)) } \cup FailureOutcomes

(***************************************************************************)
(* State                                                                   *)
(***************************************************************************)
VARIABLES
    response_text,      \* filter run: the candidate text handed to validate_gemini_response
    user_message,       \* filter run: the originating user message
    validation,         \* filter run: the returned (is_valid, safe_response), NotValidated before the call
    warnings,           \* filter run: the records written by logger.warning
    env,                \* process environment: what the Gemini package and settings allow
    api_client,         \* module global _api_client of api_client.py (NoInstance = None)
    api_constructed,    \* number of BackendAPIClient objects constructed so far
    gemini_client,      \* module global _gemini_client of gemini_client.py (NoInstance = None)
    gemini_constructed, \* number of GeminiRAGClient objects constructed so far
    fallback_count,     \* tracker slot fallback_count (NoneInt = None)
    run                 \* the last operation: its name, inputs, trace of effects and result

filterVars == << response_text, user_message, validation, warnings >>

mainVars == << env, api_client, api_constructed, gemini_client, gemini_constructed,
               fallback_count, run >>

vars == << response_text, user_message, validation, warnings, env, api_client,
           api_constructed, gemini_client, gemini_constructed, fallback_count, run >>

(***************************************************************************)
(* Singletons                                                              *)
(***************************************************************************)
\* the guard on the module global is missing: every call constructs
get_api_client_fresh(instance, constructed) ==
    [instance |-> constructed + 1, constructed |-> constructed + 1]

\* get_api_client(): the instance returned and the number of constructions
get_api_client(instance, constructed) ==
    IF instance = NoInstance
    THEN [instance |-> constructed + 1, constructed |-> constructed + 1]
    ELSE [instance |-> instance, constructed |-> constructed]

\* get_gemini_client()
get_gemini_client(instance, constructed) ==
    IF instance = NoInstance
    THEN [instance |-> constructed + 1, constructed |-> constructed + 1]
    ELSE [instance |-> instance, constructed |-> constructed]

Calls(trace, op) == Len(SelectOp(trace, op)) > 0

(***************************************************************************)
(* Initial state                                                           *)
(***************************************************************************)
\* the values a run extracted from the tracker before its checks
NoArgs ==
    [customer_id |-> NoneInt, user_token |-> NoneStr, order_number |-> NoneStr, product_name |-> NoneStr,
     min_price |-> NoneInt, max_price |-> NoneInt]

IdleRun ==
    [action |-> "idle", text |-> "", args |-> NoArgs, before |-> NoneInt, outcome |-> Unused,
     trace |-> << >>, events |-> << >>, raised |-> FALSE, result |-> EmptyDict]

FilterIdle ==
    /\ response_text = ""
    /\ user_message = ""
    /\ validation = NotValidated
    /\ warnings = << >>

MainIdle ==
    /\ api_client = NoInstance
    /\ api_constructed = 0
    /\ gemini_client = NoInstance
    /\ gemini_constructed = 0
    /\ fallback_count = NoneInt
    /\ run = IdleRun

Init ==
    /\ FilterIdle
    /\ env \in GeminiEnvs
    /\ MainIdle

(***************************************************************************)
(* Operations                                                              *)
(***************************************************************************)
\* a handler run: its outcome h becomes the last operation, and the
\* singletons it asked for exist afterwards; outcome is what the backend
\* answered to the request the run is about (Unused where none is kept)
FinishWith(name, text, args, outcome, h) ==
    LET a == get_api_client(api_client, api_constructed)
        g == get_gemini_client(gemini_client, gemini_constructed)
    IN
    /\ run' = [action |-> name, text |-> text, args |-> args, before |-> fallback_count,
               outcome |-> outcome, trace |-> h.trace, events |-> h.events, raised |-> h.raised,
               result |-> EmptyDict]
    /\ api_client' = IF Calls(h.trace, "get_api_client") THEN a.instance ELSE api_client
    /\ api_constructed' = IF Calls(h.trace, "get_api_client") THEN a.constructed ELSE api_constructed
    /\ gemini_client' = IF Calls(h.trace, "get_gemini_client") THEN g.instance ELSE gemini_client
    /\ gemini_constructed' = IF Calls(h.trace, "get_gemini_client") THEN g.constructed ELSE gemini_constructed
    /\ UNCHANGED << env, fallback_count, response_text, user_message, validation, warnings >>

Finish(name, text, h) == FinishWith(name, text, NoArgs, Unused, h)

Idle == run.action = "idle"

\* BackendAPIClient._make_request on the constructed client
MakeRequest ==
    /\ Idle
    /\ api_client # NoInstance
    /\ \E method \in { "GET", "POST" }, endpoint \in { "/orders", "/api/chatbot/gemini/log" },
          outcome \in RequestOutcomes :
          LET r == make_request(method, endpoint, NoParams, outcome)
          IN  run' = [IdleRun EXCEPT !.action = "_make_request", !.before = fallback_count,
                                    !.outcome = outcome, !.trace = r.calls,
                                    !.raised = r.raised, !.result = r.result]
    /\ UNCHANGED << env, api_client, api_constructed, gemini_client, gemini_constructed,
                    fallback_count, response_text, user_message, validation, warnings >>

\* get_api_client() called on its own; the result is the instance returned
CallGetApiClient ==
    /\ Idle
    /\ LET a == get_api_client(api_client, api_constructed)
       IN  /\ run' = [IdleRun EXCEPT !.action = "get_api_client", !.before = fallback_count,
                                     !.trace = << GetApiClient >>,
                                     !.result = [instance |-> a.instance,
                                                 constructed |-> a.constructed # api_constructed]]
           /\ api_client' = a.instance
           /\ api_constructed' = a.constructed
    /\ UNCHANGED << env, gemini_client, gemini_constructed, fallback_count,
                    response_text, user_message, validation, warnings >>

\* get_gemini_client() called on its own
CallGetGeminiClient ==
    /\ Idle
    /\ LET g == get_gemini_client(gemini_client, gemini_constructed)
       IN  /\ run' = [IdleRun EXCEPT !.action = "get_gemini_client", !.before = fallback_count,
                                     !.trace = << GetGeminiClient >>,
                                     !.result = [instance |-> g.instance,
                                                 constructed |-> g.constructed # gemini_constructed]]
           /\ gemini_client' = g.instance
           /\ gemini_constructed' = g.constructed
    /\ UNCHANGED << env, api_client, api_constructed, fallback_count,
                    response_text, user_message, validation, warnings >>

\* one of the three generating methods called on the constructed client
CallGeminiClient ==
    /\ Idle
    /\ gemini_client # NoInstance
    /\ \E method \in GeminiMethods, query \in GeminiQueries :
       \E products \in IF method = "generate_response_with_products" THEN ProductLists ELSE { << >> } :
       \E go \in WhenAsked(gemini_enabled(env) /\ ~build_context_from_products(products).raised,
                           GeminiOutcomes) :
          LET r == CASE method = "handle_open_ended_query" ->
                            handle_open_ended_query(query, env, go)
                     [] method = "generate_response_with_context" ->
                            generate_response_with_context(query, ReturnPolicy, env, go)
                     [] method = "generate_response_with_products" ->
                            generate_response_with_products(query, products, env, go)
          IN  run' = [IdleRun EXCEPT !.action = method, !.text = query, !.before = fallback_count,
                                    !.outcome = go, !.trace = r.calls, !.raised = r.raised,
                                    !.result = [success |-> r.success, error |-> r.error,
                                                response |-> r.response]]
    /\ UNCHANGED << env, api_client, api_constructed, gemini_client, gemini_constructed,
                    fallback_count, response_text, user_message, validation, warnings >>

AskGemini ==
    /\ Idle
    /\ \E text \in UserTexts :
       \E go \in WhenAsked(text # "" /\ gemini_enabled(env), GeminiOutcomes) :
       \E lo \in WhenCalled(go.kind = "text" /\ go.text # "", LogOutcomes) :
          Finish("action_ask_gemini", text, ActionAskGemini_run(text, env, go, lo))

AskGeminiWithHistory ==
    /\ Idle
    /\ \E text \in UserTexts, events \in Histories :
       \E go \in WhenAsked(text # "" /\ gemini_enabled(env) /\ conversation_history(events) # << >>,
                           GeminiOutcomes) :
       \E lo \in WhenCalled(go.kind = "text" /\ go.text # "", LogOutcomes) :
          Finish("action_ask_gemini_with_history", text,
                 ActionAskGeminiWithHistory_run(text, events, env, go, lo))

Fallback ==
    /\ Idle
    /\ fallback_count < MaxFallbackCount
    /\ \E text \in UserTexts :
       \E go \in WhenAsked(/\ ~is_out_of_scope(text)
                           /\ (IF fallback_count = NoneInt THEN 0 ELSE fallback_count) + 1 < EscalateAfter
                           /\ gemini_enabled(env),
                           GeminiOutcomes) :
       \E lo \in WhenCalled(go.kind = "text" /\ go.text # "", LogOutcomes) :
          Finish("action_fallback", text, ActionFallback_run(text, fallback_count, env, go, lo))

SearchProducts ==
    /\ Idle
    /\ \E product_type \in ProductEntities, product_name \in ProductEntities, text \in SearchTexts,
          outcome \in SearchOutcomes :
          Finish("action_search_products", text,
                 ActionSearchProducts_run(product_type, product_name, text, outcome))

SearchByPrice ==
    /\ Idle
    /\ \E max_price_str \in PriceEntities, min_price_str \in PriceEntities, product_type \in ProductEntities :
       \E outcome \in WhenCalled(~NoPrice(parse_price(max_price_str)) \/ ~NoPrice(parse_price(min_price_str)),
                                 PriceOutcomes) :
          FinishWith("action_search_by_price", "",
                     [NoArgs EXCEPT !.min_price = parse_price(min_price_str),
                                    !.max_price = parse_price(max_price_str)],
                     outcome,
                     ActionSearchByPrice_run(max_price_str, min_price_str, product_type, outcome))

CheckDiscount ==
    /\ Idle
    /\ \E outcome \in DiscountOutcomes :
          Finish("action_check_discount", "", ActionCheckDiscount_run(outcome))

GetDeliveryStatus ==
    /\ Idle
    /\ \E order_number \in OrderNumbers, meta_cid \in CustomerIds, slot_cid \in CustomerIds,
          meta_jwt \in Tokens, slot_jwt \in Tokens :
       \E outcome \in WhenCalled(/\ ~NoCustomer(delivery_get_customer_id_from_tracker(meta_cid, slot_cid))
                                 /\ get_jwt_token_from_tracker(meta_jwt, slot_jwt) # NoneStr
                                 /\ order_number # NoneStr,
                                 DeliveryOutcomes) :
          FinishWith("action_get_delivery_status", "",
                     [NoArgs EXCEPT
                         !.customer_id = delivery_get_customer_id_from_tracker(meta_cid, slot_cid),
                         !.user_token = get_jwt_token_from_tracker(meta_jwt, slot_jwt),
                         !.order_number = order_number],
                     Unused,
                     ActionGetDeliveryStatus_run(order_number, meta_cid, slot_cid, meta_jwt, slot_jwt, outcome))

TrackOrder ==
    /\ Idle
    /\ \E order_number \in OrderNumbers, product_name \in PurchasedNames,
          meta_cid \in CustomerIds, slot_cid \in CustomerIds, meta_jwt \in Tokens, slot_jwt \in Tokens :
       \E vo \in WhenCalled(meta_cid = NoneStr /\ slot_cid = NoneStr /\ meta_jwt # NoneStr, VerifyOutcomes) :
       LET auth == get_customer_id_from_tracker(meta_cid, slot_cid, meta_jwt, vo)
           signed_in == ~auth.raised /\ ~NoCustomer(auth.customer_id)
       IN
       \E oo \in WhenCalled(signed_in /\ order_number = NoneStr, OrdersOutcomes) :
       \E do \in WhenCalled(signed_in /\ (order_number # NoneStr \/ product_name # NoneStr),
                            DetailsOutcomes) :
          FinishWith("action_track_order", "",
                     [NoArgs EXCEPT
                         !.customer_id = auth.customer_id,
                         !.user_token = get_jwt_token_from_tracker(meta_jwt, slot_jwt),
                         !.order_number = order_number,
                         !.product_name = product_name],
                     oo,
                     ActionTrackOrder_run(order_number, product_name, meta_cid, slot_cid,
                                          meta_jwt, slot_jwt, vo, oo, do))

\* the action server hands the result back: the returned SlotSet events
\* reach the tracker and the next operation may start
Complete ==
    /\ ~Idle
    /\ LET sets == SelectSeq(run.events, LAMBDA ev : ev.name = "fallback_count")
       IN  fallback_count' = IF sets = << >> THEN fallback_count ELSE sets[Len(sets)].value
    /\ run' = IdleRun
    /\ UNCHANGED << env, api_client, api_constructed, gemini_client, gemini_constructed,
                    response_text, user_message, validation, warnings >>

Next ==
    \/ MakeRequest
    \/ CallGetApiClient
    \/ CallGetGeminiClient
    \/ CallGeminiClient
    \/ AskGemini
    \/ AskGeminiWithHistory
    \/ Fallback
    \/ SearchProducts
    \/ SearchByPrice
    \/ CheckDiscount
    \/ GetDeliveryStatus
    \/ TrackOrder
    \/ Complete

Spec == Init /\ [][Next]_vars

(***************************************************************************)
(* The filter applied to one drawn input                                   *)
(***************************************************************************)
FilterInit ==
    /\ response_text \in Texts
    /\ user_message \in UserMessages
    /\ validation = NotValidated
    /\ warnings = << >>
    /\ env = "ready"
    /\ MainIdle

Validate ==
    /\ validation = NotValidated
    /\ validation' = validate_gemini_response(response_text, user_message)
    /\ warnings' = warnings \o violation_log(response_text, user_message)
    /\ UNCHANGED << response_text, user_message >>
    /\ UNCHANGED mainVars

FilterNext == Validate

FilterSpec == FilterInit /\ [][FilterNext]_vars

Validated == validation # NotValidated

\* some entry of FORBIDDEN_PATTERNS matches the lower-cased text
MatchesForbidden(text) ==
    \E p \in 1..Len(FORBIDDEN_PATTERNS) : re_search(FORBIDDEN_PATTERNS[p], lower(text))

(***************************************************************************)
(* Properties of the filter                                                *)
(***************************************************************************)
\* C1: a response whose lower-cased form matches an entry of FORBIDDEN_PATTERNS
\* is answered by (False, F), F being the one fixed fallback message, which
\* contains 'check our store system'.
C1_BlockedGetsFixedFallback ==
    (Validated /\ MatchesForbidden(response_text)) =>
        /\ validation.is_valid = FALSE
        /\ validation.text = safe_fallback
        /\ Contains(validation.text, "check our store system")

C1_Witness ==
    /\ Validated
    /\ response_text = "SOLD out"
    /\ validation.is_valid = FALSE

\* C2: a response that matches no entry of FORBIDDEN_PATTERNS, the empty
\* string and long safe text included, is returned as (True, response_text),
\* character for character.
C2_SafePassesUnchanged ==
    (Validated /\ ~MatchesForbidden(response_text)) =>
        /\ validation.is_valid = TRUE
        /\ validation.text = response_text

C2_Witness ==
    /\ Validated
    /\ response_text = Repeat("Cotton fabric ", LongRepeats)
    /\ validation.is_valid = TRUE

\* C3: every response that contains one of the forbidden-topic keywords of
\* the test suite is declared invalid.
C3_KeywordsBlocked ==
    (Validated /\ \E k \in ForbiddenKeywords : Contains(lower(response_text), k)) =>
        validation.is_valid = FALSE

\* C4: every response that tells the user the status of an order, such as
\* the one of test_blocks_order_status, is declared invalid.
C4_OrderStatusBlocked ==
    (Validated /\ response_text = OrderStatusResponse) => validation.is_valid = FALSE

\* C6: the returned text is never a partial edit: it is the input (valid) or
\* the fixed fallback (invalid), and one forbidden match in a response makes
\* the whole response invalid.
C6_AllOrNothing ==
    Validated =>
        /\ \/ validation.is_valid = TRUE  /\ validation.text = response_text
           \/ validation.is_valid = FALSE /\ validation.text = safe_fallback
        /\ Cardinality(violated_keywords(response_text)) = 1 => validation.text = safe_fallback

C6_Witness ==
    /\ Validated
    /\ response_text = "Cotton is great for summer. Prices start from $20."
    /\ Cardinality(violated_keywords(response_text)) = 1
    /\ validation.text = safe_fallback

\* C7: the result depends on response_text only: whatever user message is
\* passed with the same response text, flag and text are those returned.
C7_UserMessageIrrelevant ==
    Validated =>
        \A u \in UserMessages : validate_gemini_response(response_text, u) = validation

C7_Witness ==
    /\ Validated
    /\ user_message = "is it in stock"
    /\ response_text = "Cotton"
    /\ validation.is_valid = TRUE
    /\ warnings = << >>

(***************************************************************************)
(* Properties of the Gemini-backed actions                                 *)
(***************************************************************************)
GeminiActions == { "action_ask_gemini", "action_ask_gemini_with_history", "action_fallback" }

\* entry g of the trace is a text produced by Gemini
GeminiProduced(trace, g) == trace[g].op = "gemini" /\ trace[g].kind = "text"

\* C5: in a run of ActionAskGemini, ActionAskGeminiWithHistory or
\* ActionFallback a message of Gemini origin is dispatched only after the
\* text Gemini produced went through validate_gemini_response, it is the
\* filter's second output (the raw text if no forbidden pattern matches,
\* else the fixed fallback), and the raw text of a blocked response is not
\* dispatched.
C5_GeminiTextIsFiltered ==
    run.action \in GeminiActions =>
        /\ \A j \in DOMAIN run.trace :
              (run.trace[j].op = "utter" /\ run.trace[j].source = "gemini_ai") =>
                 \E g \in 1..(j - 1), i \in 1..(j - 1) :
                    /\ g < i
                    /\ GeminiProduced(run.trace, g)
                    /\ run.trace[i].op = "validate"
                    /\ run.trace[i].text = run.trace[g].text
                    /\ run.trace[j].text = IF MatchesForbidden(run.trace[g].text)
                                           THEN safe_fallback
                                           ELSE run.trace[g].text
        /\ \A g \in DOMAIN run.trace, j \in DOMAIN run.trace :
              (GeminiProduced(run.trace, g) /\ MatchesForbidden(run.trace[g].text)
                  /\ run.trace[j].op = "utter") => run.trace[j].text # run.trace[g].text

C5_Witness ==
    /\ run.action = "action_fallback"
    /\ \E g \in DOMAIN run.trace, j \in DOMAIN run.trace :
          /\ GeminiProduced(run.trace, g)
          /\ run.trace[g].text = "It is IN STOCK now."
          /\ run.trace[j].op = "utter"
          /\ run.trace[j].source = "gemini_ai"
          /\ run.trace[j].text = safe_fallback

(***************************************************************************)
(* Properties of the backend client and of the backend actions             *)
(***************************************************************************)
\* C8: _make_request does not raise for a backend failure: for an HTTP error
\* status, a connection failure or a timeout it returns a dictionary with
\* error = True and a message; on success it returns the parsed body.
C8_FailureBecomesErrorDict ==
    run.action = "_make_request" =>
        /\ IsBackendFailure(run.outcome.kind) =>
              /\ ~run.raised
              /\ run.result.shape = "dict"
              /\ run.result.error = TRUE
              /\ run.result.message # ""
        /\ run.outcome.kind = "ok" => (~run.raised /\ run.result = run.outcome.body)

C8_Witness ==
    /\ run.action = "_make_request"
    /\ run.outcome.kind = "timeout"
    /\ run.result.error = TRUE
    /\ run.result.message = "Connection error: Read timed out."

\* C9: an invocation of _make_request issues exactly one HTTP request,
\* whether it succeeds, returns an error status, or fails to connect.
C9_OneRequestPerInvocation ==
    run.action = "_make_request" => Len(SelectOp(run.trace, "http")) = 1

C9_Witness ==
    /\ run.action = "_make_request"
    /\ run.outcome.kind = "connection"
    /\ Len(SelectOp(run.trace, "http")) = 1

BackendActions ==
    { "action_search_products", "action_get_delivery_status", "action_track_order",
      "action_check_discount" }

\* the actions that catch an exception of their backend call
CatchingActions == { "action_search_products", "action_get_delivery_status" }

\* the replies the actions give when a backend call failed
FailureReplies ==
    { CatalogTrouble, SearchOops, DiscountTrouble,
      DeliveryUnavailable, DeliveryRetry, TrackRetrieveFailed, TrackSignIn }
    \cup { DeliveryNotFound(n) : n \in OrderNumbers }
    \cup { TrackOrderNotFound(n) : n \in OrderNumbers \cup { Order32.order_number, Order41.order_number } }
    \cup { TrackNoProductOrders(n) : n \in PurchasedNames }

\* the backend call at entry i of the run came back as an error result, or
\* raised inside an action that catches
CallFailed(i) ==
    /\ run.trace[i].op = "http"
    /\ \/ run.trace[i].error
       \/ run.trace[i].kind = "invalid_json_raw" /\ run.action \in CatchingActions

C11_GeminiClientNeverRaises ==
    run.action \in GeminiMethods =>
        /\ ~run.raised
        /\ ~gemini_enabled(env) =>
              /\ run.result = [success |-> FALSE, error |-> "RAG is disabled", response |-> NoneStr]
              /\ ~Calls(run.trace, "gemini")
        /\ run.outcome.kind = "exception" =>
              /\ run.result.success = FALSE
              /\ run.result.response = NoneStr

C11_Witness ==
    /\ run.action = "handle_open_ended_query"
    /\ env = "ready"
    /\ run.outcome = GeminiException
    /\ Calls(run.trace, "gemini")
    /\ ~run.raised
    /\ run.result.success = FALSE
    /\ run.result.error = GeminiException.text

\* C12: whatever calls were made, at most one BackendAPIClient and at most
\* one GeminiRAGClient have been constructed, a call of get_api_client() or
\* get_gemini_client() leaves exactly one constructed, and it returns the
\* first instance.
C12_SingleInstances ==
    /\ api_constructed <= 1
    /\ gemini_constructed <= 1
    /\ api_client \in { NoInstance, 1 }
    /\ gemini_client \in { NoInstance, 1 }
    /\ run.action = "get_api_client" =>
          (run.result.instance = 1 /\ api_client = 1 /\ api_constructed = 1)
    /\ run.action = "get_gemini_client" =>
          (run.result.instance = 1 /\ gemini_client = 1 /\ gemini_constructed = 1)

\* a call of get_api_client() that found the instance and constructed nothing
C12_Witness ==
    /\ run.action = "get_api_client"
    /\ ~run.result.constructed
    /\ run.result.instance = 1
    /\ api_constructed = 1

\* C13: the system prompt that every prompt built by the Gemini actions
\* carries contains 'CANNOT answer' and names 'price', 'stock' and 'order'.
C13_PromptHasRestrictions ==
    \A g \in DOMAIN run.trace :
        (run.action \in GeminiActions /\ run.trace[g].op = "gemini") =>
            /\ Contains(run.trace[g].params.query, GEMINI_SYSTEM_PROMPT)
            /\ Contains(GEMINI_SYSTEM_PROMPT, "CANNOT answer")
            /\ Contains(GEMINI_SYSTEM_PROMPT, "price")
            /\ Contains(GEMINI_SYSTEM_PROMPT, "stock")
            /\ Contains(GEMINI_SYSTEM_PROMPT, "order")

\* the run reached the point where the action looks at the Gemini client
ReachedGemini == Calls(run.trace, "get_gemini_client")

\* C14: with the google-generativeai package or GEMINI_API_KEY missing,
\* ActionFallback sends its standard template and stores the incremented
\* fallback_count, ActionAskGemini and ActionAskGeminiWithHistory send their
\* template reply, and the three runs return without calling Gemini.
C14_DisabledGeminiTemplates ==
    (env \in { "no_package", "no_key" } /\ run.action \in GeminiActions /\ ReachedGemini) =>
        /\ ~run.raised
        /\ ~Calls(run.trace, "gemini")
        /\ Len(SelectOp(run.trace, "utter")) = 1
        /\ run.action = "action_fallback" =>
              /\ SelectOp(run.trace, "utter")[1].text = StandardFallback
              /\ run.events = << SlotSet("fallback_count",
                                         (IF run.before = NoneInt THEN 0 ELSE run.before) + 1) >>
        /\ run.action = "action_ask_gemini" =>
              SelectOp(run.trace, "utter")[1].text = AskGeminiUnavailable
        /\ run.action = "action_ask_gemini_with_history" =>
              SelectOp(run.trace, "utter")[1].text = HistoryUnavailable

(***************************************************************************)
(* Properties of ActionFallback                                            *)
(***************************************************************************)
FallbackRun == run.action = "action_fallback"

\* the messages the run dispatched, in order
Uttered == SelectOp(run.trace, "utter")

\* tracker.get_slot("fallback_count") or 0, before the run
PreviousCount == IF run.before = NoneInt THEN 0 ELSE run.before

\* Gemini returned a successful non-empty response in the run
GeminiAnswered ==
    \E g \in DOMAIN run.trace : GeminiProduced(run.trace, g) /\ run.trace[g].text # ""

\* C15: a run of ActionFallback that finds fallback_count >= 1 and a message
\* that is not out-of-scope offers human escalation, does not touch Gemini
\* and sets fallback_count to the previous value plus 1.
C15_EscalatesAtSecondFailure ==
    (FallbackRun /\ run.before >= 1 /\ ~is_out_of_scope(run.text)) =>
        /\ ~run.raised
        /\ Uttered = << Utter(EscalationOffer, "rasa_template", FALSE) >>
        /\ ~Calls(run.trace, "gemini")
        /\ ~ReachedGemini
        /\ run.events = << SlotSet("fallback_count", run.before + 1) >>

C15_Witness ==
    /\ FallbackRun
    /\ run.before = 1
    /\ run.text = "what goes with navy chinos"
    /\ Uttered = << Utter(EscalationOffer, "rasa_template", FALSE) >>
    /\ run.events = << SlotSet("fallback_count", 2) >>

\* the actions of the repository other than ActionFallback
OtherActions ==
    BackendActions \cup { "action_ask_gemini", "action_ask_gemini_with_history" }

\* C16: a turn handled by an action other than ActionFallback brings the
\* counter of consecutive fallbacks back to 0 (an unset slot reads as 0).
C16_OtherActionResetsCount ==
    [][(run.action \in OtherActions /\ ~run.raised /\ run'.action = "idle")
          => fallback_count' \in { 0, NoneInt }]_vars

\* C17: ActionFallback sets fallback_count to 0 exactly when the message is
\* out-of-scope (scope reminder sent, Gemini not called) or Gemini returned
\* a successful non-empty response (its validated text sent); every other
\* run sets the slot to the previous count plus 1.
C17_ResetsInTwoCases ==
    FallbackRun =>
        LET out_of_scope == is_out_of_scope(run.text)
            resets == run.events = << SlotSet("fallback_count", 0) >>
        IN  /\ resets <=> (out_of_scope \/ GeminiAnswered)
            /\ out_of_scope =>
                  /\ Uttered = << Utter(ScopeReminder, "rasa_template", FALSE) >>
                  /\ ~Calls(run.trace, "gemini")
            /\ GeminiAnswered =>
                  \E g \in DOMAIN run.trace, j \in DOMAIN run.trace :
                      /\ GeminiProduced(run.trace, g)
                      /\ run.trace[j].op = "utter"
                      /\ run.trace[j].source = "gemini_ai"
                      /\ run.trace[j].text
                            = validate_gemini_response(run.trace[g].text, run.text).text
            /\ ~resets => run.events = << SlotSet("fallback_count", PreviousCount + 1) >>

\* the run is one of a series without out-of-scope message and without an
\* answer of Gemini
UnansweredFallback == FallbackRun /\ ~is_out_of_scope(run.text) /\ ~GeminiAnswered

\* what C18 says of such a run: standard fallback at the first, escalation
\* offer from the second on, the count one higher each time
UnansweredFallbackReply ==
    UnansweredFallback =>
        /\ PreviousCount = 0 => Uttered = << Utter(StandardFallback, "rasa_template", FALSE) >>
        /\ PreviousCount >= 1 => Uttered = << Utter(EscalationOffer, "rasa_template", FALSE) >>
        /\ run.events = << SlotSet("fallback_count", PreviousCount + 1) >>

\* C18: in a series of ActionFallback runs from fallback_count = 0 with no
\* out-of-scope message and no answer of Gemini, the first run sends the
\* standard fallback with count 1, every later run offers escalation, and
\* the stored counter is one higher after every run.
C18_RepeatedFallbacks ==
    [][/\ UnansweredFallbackReply'
       /\ (UnansweredFallback /\ run'.action = "idle") => fallback_count' = PreviousCount + 1]_vars

\* C19: _is_out_of_scope is True exactly when the lower-cased message holds
\* an out-of-scope keyword and none of the fashion-context words, and a
\* message about a fashion product is never classified out-of-scope.
C19_OutOfScopeClassification ==
    FallbackRun =>
        LET message_lower == lower(run.text)
            classified == Uttered = << Utter(ScopeReminder, "rasa_template", FALSE) >>
        IN  /\ classified <=>
                  /\ \E k \in out_of_scope_keywords : Contains(message_lower, k)
                  /\ ~\E w \in fashion_words : Contains(message_lower, w)
            /\ (\E p \in product_examples : Contains(message_lower, p)) => ~classified

(***************************************************************************)
(* Properties of ActionGetDeliveryStatus                                   *)
(***************************************************************************)
\* C20: ActionGetDeliveryStatus calls the delivery-estimation endpoint only
\* with customer_id, user token and order number all present; a missing
\* customer_id or token gives the sign-in prompt alone, also when the order
\* number is missing; a missing order number alone gives the order-number
\* prompt alone; no run returns an event.
C20_DeliveryChecksBeforeCall ==
    run.action = "action_get_delivery_status" =>
        LET authenticated == ~NoCustomer(run.args.customer_id) /\ run.args.user_token # NoneStr
            has_order == run.args.order_number # NoneStr
        IN  /\ Calls(run.trace, "http") => (authenticated /\ has_order)
            /\ \A i \in DOMAIN run.trace :
                  run.trace[i].op = "http" =>
                     run.trace[i].endpoint = "/orders/track/delivery-estimation"
            /\ ~authenticated => Uttered = << Utter(DeliverySignIn, "", FALSE) >>
            /\ (authenticated /\ ~has_order) => Uttered = << Utter(DeliveryAskOrder, "", FALSE) >>
            /\ run.events = << >>

C20_Witness ==
    /\ run.action = "action_get_delivery_status"
    /\ run.args.customer_id = 7
    /\ run.args.user_token = NoneStr
    /\ run.args.order_number = NoneStr
    /\ Uttered = << Utter(DeliverySignIn, "", FALSE) >>
    /\ ~Calls(run.trace, "http")

(***************************************************************************)
(* ActionTrackOrder: the sign-in requirement and the order list            *)
(***************************************************************************)
TrackRun == run.action = "action_track_order"

\* the endpoints of get_user_orders / search_purchased_products and of
\* get_order_details
OrderEndpoints == { "/orders", "/orders/track" }

OrderRequests == SelectSeq(run.trace, LAMBDA e : e.op = "http" /\ e.endpoint \in OrderEndpoints)

\* get_customer_id_from_tracker returned, and what it returned is falsy
NoCustomerId == TrackRun /\ ~run.raised /\ NoCustomer(run.args.customer_id)

\* C21: when get_customer_id_from_tracker yields no customer_id, a run of
\* ActionTrackOrder sends the sign-in message and nothing else, returns no
\* events and sends no request to any of the order endpoints
C21_TrackOrderRequiresSignIn ==
    NoCustomerId =>
        /\ Uttered = << Utter(TrackSignIn, "", FALSE) >>
        /\ run.events = << >>
        /\ OrderRequests = << >>

\* a visitor whose JWT token the backend did not verify asked for the recent
\* orders and was told to sign in
C21_Witness ==
    /\ NoCustomerId
    /\ run.args.user_token # NoneStr
    /\ run.args.order_number = NoneStr
    /\ \E i \in 1..Len(run.trace) :
          run.trace[i].op = "http" /\ run.trace[i].endpoint = "/api/chatbot/auth/verify"
    /\ Uttered = << Utter(TrackSignIn, "", FALSE) >>

\* a signed-in user gave neither an order number nor a product name, and the
\* backend answered the listing with a dictionary without an error whose
\* "data" is the empty list
EmptyOrderList ==
    /\ TrackRun
    /\ ~run.raised
    /\ ~NoCustomer(run.args.customer_id)
    /\ run.args.order_number = NoneStr
    /\ run.args.product_name = NoneStr
    /\ run.outcome.kind = "ok"
    /\ run.outcome.body.shape = "dict"
    /\ ~run.outcome.body.error
    /\ run.outcome.body.data = << >>

\* C22: a signed-in user with neither an order number nor a product name is
\* told "You don't have any orders yet" when the backend successfully
\* returns an empty order list
C22_EmptyOrderListReply ==
    EmptyOrderList => Uttered = << Utter(TrackNoOrdersYet, "", FALSE) >>

\* what the run replies instead: the text of a failed retrieval
C22_EmptyListTakenAsFailure ==
    EmptyOrderList => Uttered = << Utter(TrackRetrieveFailed, "", FALSE) >>

\* no run of ActionTrackOrder sends "You don't have any orders yet"
C22_NoOrdersYetNeverSent ==
    TrackRun => \A i \in 1..Len(Uttered) : Uttered[i].text # TrackNoOrdersYet

(***************************************************************************)
(* ActionSearchByPrice: the price bounds of the search                     *)
(***************************************************************************)
PriceRun == run.action = "action_search_by_price"

SearchRequests ==
    SelectSeq(run.trace, LAMBDA e : e.op = "http" /\ e.endpoint = "/api/chatbot/products/search")

\* a price search that sent its request to the backend search endpoint
PriceSearchSent == PriceRun /\ Len(SearchRequests) = 1

\* C23: when a minimum or a maximum price was parsed from the entities, the
\* request that ActionSearchByPrice sends to the backend search endpoint
\* carries those price bounds among its parameters
C23_RequestCarriesPriceBounds ==
    PriceSearchSent =>
        /\ ~NoPrice(run.args.min_price) => "min_price" \in SearchRequests[1].params.keys
        /\ ~NoPrice(run.args.max_price) => "max_price" \in SearchRequests[1].params.keys

\* what is sent instead: the product type, if any, and the limit of 10
C23_RequestCarriesQueryAndLimit ==
    PriceSearchSent =>
        /\ SearchRequests[1].params.keys \subseteq { "query", "limit" }
        /\ SearchRequests[1].params.limit = 10

\* the request is sent exactly when a price was parsed
C23_RequestOnlyWithPrice ==
    PriceRun => (Len(SearchRequests) = 1 <=> ~NoPrice(run.args.min_price) \/ ~NoPrice(run.args.max_price))

====
